---- MODULE Spec2Model ----
(***************************************************************************)
(* Roofing estimate engine: measurement normalizer (eagleview-types.ts),   *)
(* quantity rule engine, price resolver, labor cost calculator and total   *)
(* cost aggregator (src/utils/calculations.ts).                            *)
(*                                                                         *)
(* JavaScript numbers are modelled as exact rationals [n, d] in lowest     *)
(* terms with d > 0; IEEE-754 rounding is not modelled.  Strings that the  *)
(* code inspects character by character (names, units, categories, pitch   *)
(* labels) are sequences of one-character strings; strings that are only   *)
(* compared whole (formula identifiers, condition types, ids) are atoms.   *)
(***************************************************************************)
EXTENDS Integers, Sequences, FiniteSets, TLC

VARIABLES pc, measurements, rules, materials, prices, pricedMaterials,
          laborRates, laborItems, contributionX, totals,
          data, include2, include3, meas,
          pitches1, pitches2, merged,
          jobNotes, financed, notes, totalsWithFee, financeTotal,
          role, stored, puts, response, contributionPct

\* the state of the calculation engine, the normalizer and the financing fee
engine == <<pc, measurements, rules, materials, prices, pricedMaterials,
            laborRates, laborItems, contributionX, totals,
            data, include2, include3, meas,
            pitches1, pitches2, merged,
            jobNotes, financed, notes, totalsWithFee, financeTotal>>

\* the state of the estimates API and of the estimate page's saves
page == <<role, stored, puts, response, contributionPct>>

vars == <<pc, measurements, rules, materials, prices, pricedMaterials,
          laborRates, laborItems, contributionX, totals,
          data, include2, include3, meas,
          pitches1, pitches2, merged,
          jobNotes, financed, notes, totalsWithFee, financeTotal, page>>

\* ------------------------------------------------------------------ bounds

MaxRules == 2
MaxItems == 2
MaxCatalog == 3
MaxRates == 2
MaxStructures == 3
MaxPitches == 3
\* saves of the estimate page in flight at one time
MaxInFlight == 2

\* ------------------------------------------------------------ JS numbers

\* undefined, where a number is optional (no number has d = 0)
Undef == [n |-> 0, d |-> 0]

Abs(x) == IF x < 0 THEN -x ELSE x

RECURSIVE GCD(_, _)
GCD(a, b) == IF b = 0 THEN a ELSE GCD(b, a % b)

Q(n, d) ==
  LET g == GCD(Abs(n), Abs(d))
      s == IF d < 0 THEN -1 ELSE 1
  IN  [n |-> s * (n \div g), d |-> s * (d \div g)]

QInt(i) == [n |-> i, d |-> 1]
QZero == QInt(0)
\* sums over the least common denominator and products with the common
\* factors taken out first, to keep the intermediate integers small
QAdd(a, b) ==
  LET g == GCD(a.d, b.d)
  IN  Q(a.n * (b.d \div g) + b.n * (a.d \div g), (a.d \div g) * b.d)
QSub(a, b) == QAdd(a, [n |-> -b.n, d |-> b.d])
QMul(a, b) ==
  LET g1 == GCD(Abs(a.n), b.d)
      g2 == GCD(Abs(b.n), a.d)
  IN  Q((a.n \div g1) * (b.n \div g2), (a.d \div g2) * (b.d \div g1))
QDiv(a, b) == QMul(a, Q(b.d, b.n))
QLt(a, b) == a.n * b.d < b.n * a.d
QLe(a, b) == a.n * b.d <= b.n * a.d
QMax(a, b) == IF QLt(a, b) THEN b ELSE a
QMin(a, b) == IF QLt(b, a) THEN b ELSE a
\* Math.ceil and Math.floor
QCeil(a) == QInt(-((-a.n) \div a.d))
QFloor(a) == QInt(a.n \div a.d)
IsInteger(a) == a.d = 1

\* a ?? b
Coalesce(a, b) == IF a = Undef THEN b ELSE a

\* ------------------------------------------------------------ JS strings

Letters ==
  [upper |-> <<"A","B","C","D","E","F","G","H","I","J","K","L","M",
               "N","O","P","Q","R","S","T","U","V","W","X","Y","Z">>,
   lower |-> <<"a","b","c","d","e","f","g","h","i","j","k","l","m",
               "n","o","p","q","r","s","t","u","v","w","x","y","z">>]
Digits == {"0","1","2","3","4","5","6","7","8","9"}

Range(s) == {s[i] : i \in DOMAIN s}

LowerChar(c) ==
  IF c \in Range(Letters.upper)
  THEN Letters.lower[CHOOSE i \in DOMAIN Letters.upper : Letters.upper[i] = c]
  ELSE c

\* String.prototype.toLowerCase
toLowerCase(s) == [i \in DOMAIN s |-> LowerChar(s[i])]

\* \w and \s of a regular expression
IsWordChar(c) == c \in Range(Letters.upper) \cup Range(Letters.lower) \cup Digits \cup {"_"}
IsSpace(c) == c \in {" ", "\t", "\n"}

\* s.substring(i-1, i-1+Len(t)) === t, 1-based
MatchesAt(s, i, t) ==
  /\ i >= 1
  /\ i + Len(t) - 1 <= Len(s)
  /\ \A k \in 1..Len(t) : s[i + k - 1] = t[k]

\* String.prototype.includes
includes(s, t) == \E i \in 1..(Len(s) + 1) : MatchesAt(s, i, t)

\* String.prototype.startsWith
startsWith(s, t) == MatchesAt(s, 1, t)

\* String.prototype.trim
trim(s) ==
  LET kept == {i \in DOMAIN s : ~IsSpace(s[i])}
  IN  IF kept = {} THEN <<>>
      ELSE SubSeq(s, CHOOSE i \in kept : \A j \in kept : i <= j,
                     CHOOSE i \in kept : \A j \in kept : j <= i)

\* --------------------------------- names, units and categories (seed data)

\* material names of the seeded rules and prices
\* "TAMKO Proline(TM) Titan XT(TM) Premium Architectural Shingles"
Names ==
  [Shingles |->
     <<"T","A","M","K","O"," ","P","r","o","l","i","n","e","TM"," ","T","i",
     "t","a","n"," ","X","T","TM"," ","P","r","e","m","i","u","m"," ",
     "A","r","c","h","i","t","e","c","t","u","r","a","l"," ","S","h",
     "i","n","g","l","e","s">>,
   \* "TAMKO 12-1/4" x 12" Hip and Ridge Shingles"
   HipRidge |->
     <<"T","A","M","K","O"," ","1","2","-","1","/","4","\""," ","x"," ","1",
     "2","\""," ","H","i","p"," ","a","n","d"," ","R","i","d","g","e",
     " ","S","h","i","n","g","l","e","s">>,
   \* "TRI-BUILT OmniRidge(R) Pro Shingle Over Ridge Vent"
   RidgeVent |->
     <<"T","R","I","-","B","U","I","L","T"," ","O","m","n","i","R","i","d",
     "g","e","REG"," ","P","r","o"," ","S","h","i","n","g","l","e"," ",
     "O","v","e","r"," ","R","i","d","g","e"," ","V","e","n","t">>,
   \* "TRI-BUILT Synthetic Roofing Underlayment"
   Underlayment |->
     <<"T","R","I","-","B","U","I","L","T"," ","S","y","n","t","h","e","t",
     "i","c"," ","R","o","o","f","i","n","g"," ","U","n","d","e","r",
     "l","a","y","m","e","n","t">>,
   \* "TRI-BUILT Shingle Starter"
   Starter |->
     <<"T","R","I","-","B","U","I","L","T"," ","S","h","i","n","g","l","e",
     " ","S","t","a","r","t","e","r">>,
   \* "TRI-BUILT Aluminum Style "SR" Roof Edge"
   DripEdge |->
     <<"T","R","I","-","B","U","I","L","T"," ","A","l","u","m","i","n","u",
     "m"," ","S","t","y","l","e"," ","\"","S","R","\""," ","R","o","o",
     "f"," ","E","d","g","e">>,
   \* "TRI-BUILT Sand Surface Self-Adhering Ice & Water"
   IceWater |->
     <<"T","R","I","-","B","U","I","L","T"," ","S","a","n","d"," ","S","u",
     "r","f","a","c","e"," ","S","e","l","f","-","A","d","h","e","r",
     "i","n","g"," ","I","c","e"," ","&"," ","W","a","t","e","r">>,
   \* "TRI-BUILT Coil Roofing Nails"
   Nails |->
     <<"T","R","I","-","B","U","I","L","T"," ","C","o","i","l"," ","R","o",
     "o","f","i","n","g"," ","N","a","i","l","s">>,
   \* "TRI-BUILT Staples"
   Staples |->
     <<"T","R","I","-","B","U","I","L","T"," ","S","t","a","p","l","e",
     "s">>,
   \* "TRI-BUILT High Performance Elastomeric Sealant"
   Caulk |->
     <<"T","R","I","-","B","U","I","L","T"," ","H","i","g","h"," ","P","e",
     "r","f","o","r","m","a","n","c","e"," ","E","l","a","s","t","o",
     "m","e","r","i","c"," ","S","e","a","l","a","n","t">>,
   \* "TRI-BUILT SA Plybase"
   Plybase |->
     <<"T","R","I","-","B","U","I","L","T"," ","S","A"," ","P","l","y","b",
     "a","s","e">>,
   \* "TRI-BUILT SA Cap Sheet"
   CapSheet |->
     <<"T","R","I","-","B","U","I","L","T"," ","S","A"," ","C","a","p"," ",
     "S","h","e","e","t">>,
   \* "TRI-BUILT High Performance Elastomeric Sealant - 10.1 Oz. Tube"
   SealantTube |->
     <<"T","R","I","-","B","U","I","L","T"," ","H","i","g","h"," ","P","e",
     "r","f","o","r","m","a","n","c","e"," ","E","l","a","s","t","o",
     "m","e","r","i","c"," ","S","e","a","l","a","n","t"," ","-"," ",
     "1","0",".","1"," ","O","z","."," ","T","u","b","e">>,
   \* "TRI-BUILT Sand Surface Self-Adhering Ice & Water Underlayment"
   IceWaterUnderlayment |->
     <<"T","R","I","-","B","U","I","L","T"," ","S","a","n","d"," ","S","u",
     "r","f","a","c","e"," ","S","e","l","f","-","A","d","h","e","r",
     "i","n","g"," ","I","c","e"," ","&"," ","W","a","t","e","r"," ",
     "U","n","d","e","r","l","a","y","m","e","n","t">>,
   \* "Mayco Industries Lead Boot"
   LeadBoot |->
     <<"M","a","y","c","o"," ","I","n","d","u","s","t","r","i","e","s"," ",
     "L","e","a","d"," ","B","o","o","t">>]

\* names an administrator can enter
\* "Shingle Over Vent Strip"
OtherNames ==
  [VentStrip |->
     <<"S","h","i","n","g","l","e"," ","O","v","e","r"," ","V","e","n","t",
     " ","S","t","r","i","p">>,
   \* "RidgeVent Nails"
   RidgeVentNails |->
     <<"R","i","d","g","e","V","e","n","t"," ","N","a","i","l","s">>,
   \* "Turbo Nails"
   TurboVent |->
     <<"T","u","r","b","o"," ","N","a","i","l","s">>,
   \* "TRI-BUILT SYNTHETIC ROOFING UNDERLAYMENT"
   UnderlaymentUpper |->
     <<"T","R","I","-","B","U","I","L","T"," ","S","Y","N","T","H","E","T",
     "I","C"," ","R","O","O","F","I","N","G"," ","U","N","D","E","R",
     "L","A","Y","M","E","N","T">>,
   \* "TRI-BUILT Felt Underlayment"
   Felt |->
     <<"T","R","I","-","B","U","I","L","T"," ","F","e","l","t"," ","U","n",
     "d","e","r","l","a","y","m","e","n","t">>,
   \* "Roofing Underlayment"
   RoofingUnderlayment |->
     <<"R","o","o","f","i","n","g"," ","U","n","d","e","r","l","a","y","m",
     "e","n","t">>]

\* units of measure of the seeded rows
\* "BDL"
Units ==
  [BDL |->
     <<"B","D","L">>,
   \* "PC"
   PC |->
     <<"P","C">>,
   \* "RL"
   RL |->
     <<"R","L">>,
   \* "CTN"
   CTN |->
     <<"C","T","N">>,
   \* "BX"
   BX |->
     <<"B","X">>,
   \* "TB"
   TB |->
     <<"T","B">>,
   \* "EA"
   EA |->
     <<"E","A">>]

\* categories of the seeded rows
\* "Shingles"
Categories ==
  [Shingles |->
     <<"S","h","i","n","g","l","e","s">>,
   \* "Hip & Ridge"
   HipRidge |->
     <<"H","i","p"," ","&"," ","R","i","d","g","e">>,
   \* "Ridge Vent"
   RidgeVent |->
     <<"R","i","d","g","e"," ","V","e","n","t">>,
   \* "Underlayment"
   Underlayment |->
     <<"U","n","d","e","r","l","a","y","m","e","n","t">>,
   \* "Starter"
   Starter |->
     <<"S","t","a","r","t","e","r">>,
   \* "Drip Edge"
   DripEdge |->
     <<"D","r","i","p"," ","E","d","g","e">>,
   \* "Ice & Water"
   IceWater |->
     <<"I","c","e"," ","&"," ","W","a","t","e","r">>,
   \* "Nails"
   Nails |->
     <<"N","a","i","l","s">>,
   \* "Staples"
   Staples |->
     <<"S","t","a","p","l","e","s">>,
   \* "Caulk"
   Caulk |->
     <<"C","a","u","l","k">>,
   \* "Low Pitch"
   LowPitch |->
     <<"L","o","w"," ","P","i","t","c","h">>,
   \* "Flashing"
   Flashing |->
     <<"F","l","a","s","h","i","n","g">>]

\* ------------------------------------------------- quantity rule engine

\* /\bridge\s*vent\b/.test(nameLower)
isRidgeVentMaterial(nameLower) ==
  \E i \in 1..Len(nameLower) :
    /\ MatchesAt(nameLower, i, <<"r","i","d","g","e">>)
    /\ (i = 1 \/ ~IsWordChar(nameLower[i - 1]))
    /\ \E k \in 0..Len(nameLower) :
         /\ \A j \in (i + 5)..(i + 4 + k) : j <= Len(nameLower) /\ IsSpace(nameLower[j])
         /\ MatchesAt(nameLower, i + 5 + k, <<"v","e","n","t">>)
         /\ (i + 9 + k > Len(nameLower) \/ ~IsWordChar(nameLower[i + 9 + k]))

\* const effectiveSquares = Math.max(0, Math.ceil(measurements.roofAreaRounded ?? measurements.roofArea))
MaterialEffectiveSquares(m) ==
  QMax(QZero, QCeil(Coalesce(m.roofAreaRounded, m.roofArea)))

KnownFormulas ==
  {"roof_area_sq / 3", "hip_ridge_lf / 30", "ridge_lf / 4", "roof_area_sq / 10",
   "(eaves_lf + rakes_lf) / 100", "(eaves_lf + rakes_lf) / 10", "valleys_lf / 66",
   "roof_area_sq / 15", "low_pitch_area_sq", "low_pitch_area_sq / 2"}

\* the switch on rule.quantityFormula: floor in place of ceil
QuantityFloored(f, m) ==
  LET es == MaterialEffectiveSquares(m) IN
  CASE f = "roof_area_sq / 3" -> QFloor(QMul(es, QInt(3)))
    [] f = "hip_ridge_lf / 30" -> QFloor(QDiv(QAdd(m.hipsLength, m.ridgesLength), QInt(30)))
    [] f = "ridge_lf / 4" -> QFloor(QDiv(m.ridgesLength, QInt(4)))
    [] f = "roof_area_sq / 10" -> QFloor(QDiv(es, QInt(10)))
    [] f = "(eaves_lf + rakes_lf) / 100" ->
         QFloor(QDiv(QAdd(m.eavesLength, m.rakesLength), QInt(100)))
    [] f = "(eaves_lf + rakes_lf) / 10" ->
         QFloor(QAdd(QDiv(QAdd(m.eavesLength, m.rakesLength), QInt(10)), QInt(5)))
    [] f = "valleys_lf / 66" -> QFloor(QDiv(m.valleysLength, QInt(66)))
    [] f = "roof_area_sq / 15" -> QFloor(QDiv(es, QInt(15)))
    [] f = "low_pitch_area_sq" -> QFloor(m.lowPitchArea)
    [] f = "low_pitch_area_sq / 2" -> QFloor(QDiv(m.lowPitchArea, QInt(2)))
    [] OTHER -> QZero

\* the switch on rule.quantityFormula
Quantity(f, m) ==
  LET es == MaterialEffectiveSquares(m) IN
  CASE f = "roof_area_sq / 3" -> QCeil(QMul(es, QInt(3)))
    [] f = "hip_ridge_lf / 30" -> QCeil(QDiv(QAdd(m.hipsLength, m.ridgesLength), QInt(30)))
    [] f = "ridge_lf / 4" -> QCeil(QDiv(m.ridgesLength, QInt(4)))
    [] f = "roof_area_sq / 10" -> QCeil(QDiv(es, QInt(10)))
    [] f = "(eaves_lf + rakes_lf) / 100" ->
         QCeil(QDiv(QAdd(m.eavesLength, m.rakesLength), QInt(100)))
    [] f = "(eaves_lf + rakes_lf) / 10" ->
         QCeil(QAdd(QDiv(QAdd(m.eavesLength, m.rakesLength), QInt(10)), QInt(5)))
    [] f = "valleys_lf / 66" -> QCeil(QDiv(m.valleysLength, QInt(66)))
    [] f = "roof_area_sq / 15" -> QCeil(QDiv(es, QInt(15)))
    [] f = "low_pitch_area_sq" -> QCeil(m.lowPitchArea)
    [] f = "low_pitch_area_sq / 2" -> QCeil(QDiv(m.lowPitchArea, QInt(2)))
    [] OTHER -> QZero

\* the body of rules.forEach with if (quantity >= 0): a rule of quantity 0
\* contributes a zero-quantity line
RuleLinesZero(m, rule) ==
  LET nameLower == toLowerCase(rule.materialName)
      quantity == Quantity(rule.quantityFormula, m)
  IN  IF isRidgeVentMaterial(nameLower) /\ ~m.hasRidgeVent THEN <<>>
      ELSE IF QLe(QZero, quantity)
           THEN << [id |-> rule.id,
                    itemName |-> rule.materialName,
                    unitOfMeasure |-> rule.unitOfMeasure,
                    pricePerUnit |-> QZero,
                    category |-> rule.category,
                    quantity |-> quantity,
                    totalCost |-> QZero] >>
           ELSE <<>>

\* the body of rules.forEach: the lines one rule contributes (none or one)
RuleLines(m, rule) ==
  LET nameLower == toLowerCase(rule.materialName)
      quantity == Quantity(rule.quantityFormula, m)
  IN  IF isRidgeVentMaterial(nameLower) /\ ~m.hasRidgeVent THEN <<>>
      ELSE IF QLt(QZero, quantity)
           THEN << [id |-> rule.id,
                    itemName |-> rule.materialName,
                    unitOfMeasure |-> rule.unitOfMeasure,
                    pricePerUnit |-> QZero,
                    category |-> rule.category,
                    quantity |-> quantity,
                    totalCost |-> QZero] >>
           ELSE <<>>

RECURSIVE calculateMaterialQuantities(_, _)
calculateMaterialQuantities(m, rs) ==
  IF rs = <<>> THEN <<>>
  ELSE RuleLines(m, Head(rs)) \o calculateMaterialQuantities(m, Tail(rs))

\* ------------------------------------- rule catalog (seed data) and inputs

Rule(id, name, unit, formula, cat) ==
  [id |-> id, materialName |-> name, unitOfMeasure |-> unit,
   quantityFormula |-> formula, category |-> cat]

\* the rules inserted by the migration
Rules ==
  [Shingles |->
     Rule("r1", Names.Shingles, Units.BDL, "roof_area_sq / 3", Categories.Shingles),
   HipRidge |->
     Rule("r2", Names.HipRidge, Units.BDL, "hip_ridge_lf / 30", Categories.HipRidge),
   RidgeVent |->
     Rule("r3", Names.RidgeVent, Units.PC, "ridge_lf / 4", Categories.RidgeVent),
   Underlayment |->
     Rule("r4", Names.Underlayment, Units.RL, "roof_area_sq / 10", Categories.Underlayment),
   Starter |->
     Rule("r5", Names.Starter, Units.BDL, "(eaves_lf + rakes_lf) / 100", Categories.Starter),
   DripEdge |->
     Rule("r6", Names.DripEdge, Units.PC, "(eaves_lf + rakes_lf) / 10", Categories.DripEdge),
   IceWater |->
     Rule("r7", Names.IceWater, Units.RL, "valleys_lf / 66", Categories.IceWater),
   Nails |->
     Rule("r8", Names.Nails, Units.CTN, "roof_area_sq / 15", Categories.Nails),
   Staples |->
     Rule("r9", Names.Staples, Units.BX, "roof_area_sq / 10", Categories.Staples),
   Caulk |->
     Rule("r10", Names.Caulk, Units.TB, "roof_area_sq / 15", Categories.Caulk),
   Plybase |->
     Rule("r11", Names.Plybase, Units.RL, "low_pitch_area_sq", Categories.LowPitch),
   CapSheet |->
     Rule("r12", Names.CapSheet, Units.RL, "low_pitch_area_sq / 2", Categories.LowPitch)]

\* the rules inserted by the migration, in order
SeededRules ==
  <<Rules.Shingles, Rules.HipRidge, Rules.RidgeVent, Rules.Underlayment, Rules.Starter, Rules.DripEdge,
    Rules.IceWater, Rules.Nails, Rules.Staples, Rules.Caulk, Rules.Plybase, Rules.CapSheet>>

\* rules an administrator can add: a ridge-vent formula under a name without
\* the words "ridge vent", a ridge-vent name on another formula, a formula
\* the engine does not know
OtherRules ==
  [VentStrip |->
     Rule("r13", OtherNames.VentStrip, Units.PC, "ridge_lf / 4", Categories.RidgeVent),
   RidgeVentNails |->
     Rule("r14", OtherNames.RidgeVentNails, Units.CTN, "roof_area_sq / 15", Categories.Nails),
   Unknown |->
     Rule("r15", OtherNames.TurboVent, Units.BX, "roof_area_sq / 20", Categories.Nails)]

\* one rule for each formula of the switch
OnePerFormula ==
  <<Rules.Shingles, Rules.HipRidge, Rules.RidgeVent, Rules.Underlayment, Rules.Starter, Rules.DripEdge,
    Rules.IceWater, Rules.Nails, Rules.Plybase, Rules.CapSheet>>

\* sequences over S of length at most n without repetition
RECURSIVE SeqsNoRep(_, _)
SeqsNoRep(S, n) ==
  IF n = 0 THEN {<<>>}
  ELSE LET shorter == SeqsNoRep(S, n - 1)
       IN  shorter \cup
           UNION {{Append(s, x) : x \in S \ Range(s)} : s \in shorter}

\* the rules whose lines differ in kind: plain, gated by name, offset,
\* ridge-vent formula under another name, ridge-vent name, unknown formula
MixedRules == {Rules.Shingles, Rules.RidgeVent, Rules.DripEdge, OtherRules.VentStrip, OtherRules.RidgeVentNails, OtherRules.Unknown}

\* every single rule, every list of MixedRules up to MaxRules, and the two
\* full catalogs
RuleLists ==
  {<<r>> : r \in Range(SeededRules) \cup {OtherRules.VentStrip, OtherRules.RidgeVentNails, OtherRules.Unknown}} \cup SeqsNoRep(MixedRules, MaxRules)
    \cup {SeededRules, OnePerFormula}

\* -------------------------------------------------------- price resolver

\* an element of a regular expression: a literal character, or c* when star
Lit(t) == [i \in DOMAIN t |-> [c |-> t[i], star |-> FALSE]]
Star(c) == << [c |-> c, star |-> TRUE] >>

\* the position after the match of pat[k..] at s[i..], 0 when there is none;
\* every c* of the patterns below is followed by a literal other than c, so
\* the greedy match is the only one
RECURSIVE MatchEnd(_, _, _, _)
MatchEnd(s, i, pat, k) ==
  IF k > Len(pat) THEN i
  ELSE IF pat[k].star
       THEN IF i <= Len(s) /\ s[i] = pat[k].c
            THEN MatchEnd(s, i + 1, pat, k)
            ELSE MatchEnd(s, i, pat, k + 1)
       ELSE IF i <= Len(s) /\ s[i] = pat[k].c
            THEN MatchEnd(s, i + 1, pat, k + 1)
            ELSE 0

\* the first alternative of alts that matches at s[i..]: the position after it
FirstMatchEnd(s, i, alts) ==
  LET hits == {a \in DOMAIN alts : MatchEnd(s, i, alts[a], 1) # 0}
  IN  IF hits = {} THEN 0
      ELSE MatchEnd(s, i, alts[CHOOSE a \in hits : \A b \in hits : a <= b], 1)

RECURSIVE ReplaceFrom(_, _, _, _)
ReplaceFrom(s, i, alts, rep) ==
  IF i > Len(s) THEN <<>>
  ELSE LET e == FirstMatchEnd(s, i, alts)
       IN  IF e # 0 THEN rep \o ReplaceFrom(s, e, alts, rep)
           ELSE <<s[i]>> \o ReplaceFrom(s, i + 1, alts, rep)

\* s.replace(/alt1|alt2/g, rep) for alternatives that each hold a literal
\* backslash: a string without a backslash is returned as it is
ReplaceBackslashPattern(s, alts, rep) ==
  IF "\\" \notin Range(s) THEN s ELSE ReplaceFrom(s, 1, alts, rep)

\* .replace(/(TM)|(R)|\\.|,/g, ''): in the regular-expression literal `\\.` is
\* a backslash followed by any character but a line terminator, not a period.
\* In a run of backslashes the 1st, 3rd, ... start a match and consume the
\* character after them.
StripGlyphs(s) ==
  LET n == Len(s)
      IsBS(i) == s[i] = "\\"
      RunStart(i) ==
        CHOOSE a \in 1..i : (\A k \in a..i : IsBS(k)) /\ (a = 1 \/ ~IsBS(a - 1))
      PairStart(i) ==
        IsBS(i) /\ (i - RunStart(i)) % 2 = 0 /\ i < n /\ s[i + 1] # "\n"
      Keep(i) ==
        /\ ~PairStart(i)
        /\ ~(i > 1 /\ PairStart(i - 1))
        /\ s[i] \notin {"TM", "REG", ","}
      kept == SelectSeq([i \in 1..n |-> i], Keep)
  IN  [j \in DOMAIN kept |-> s[kept[j]]]

\* .replace(/&/g, ' and ')
RECURSIVE SpellAmpersand(_)
SpellAmpersand(s) ==
  IF "&" \notin Range(s) THEN s
  ELSE LET i == CHOOSE k \in DOMAIN s : s[k] = "&" /\ \A l \in 1..(k - 1) : s[l] # "&"
       IN  SubSeq(s, 1, i - 1) \o <<" ","a","n","d"," ">>
             \o SpellAmpersand(SubSeq(s, i + 1, Len(s)))

\* the regular expressions of norm that hold a doubled backslash; \\s is a
\* backslash followed by the letter s, not a whitespace class
Patterns ==
  [\* /hip\\s*and\\s*ridge|hip\\s*ridge/
   hipRidge |->
     << Lit(<<"h","i","p">>) \o Lit(<<"\\">>) \o Star("s") \o Lit(<<"a","n","d">>)
          \o Lit(<<"\\">>) \o Star("s") \o Lit(<<"r","i","d","g","e">>),
        Lit(<<"h","i","p">>) \o Lit(<<"\\">>) \o Star("s") \o Lit(<<"r","i","d","g","e">>) >>,
   \* /drip\\s*edge/
   dripEdge |->
     << Lit(<<"d","r","i","p">>) \o Lit(<<"\\">>) \o Star("s") \o Lit(<<"e","d","g","e">>) >>,
   \* /ice\\s*and\\s*water|ice\\s*water/
   iceWater |->
     << Lit(<<"i","c","e">>) \o Lit(<<"\\">>) \o Star("s") \o Lit(<<"a","n","d">>)
          \o Lit(<<"\\">>) \o Star("s") \o Lit(<<"w","a","t","e","r">>),
        Lit(<<"i","c","e">>) \o Lit(<<"\\">>) \o Star("s") \o Lit(<<"w","a","t","e","r">>) >>,
   \* /synthetic\\s*roofing\\s*underlayment/
   synthetic |->
     << Lit(<<"s","y","n","t","h","e","t","i","c">>) \o Lit(<<"\\">>) \o Star("s")
          \o Lit(<<"r","o","o","f","i","n","g">>) \o Lit(<<"\\">>) \o Star("s")
          \o Lit(<<"u","n","d","e","r","l","a","y","m","e","n","t">>) >>,
   \* /\\s+/: a backslash followed by one or more letters s
   whitespace |-> << Lit(<<"\\">>) \o Lit(<<"s">>) \o Star("s") >>]

\* const norm = (s?: string) => ...
norm(s) ==
  LET s1 == toLowerCase(s)
      s2 == StripGlyphs(s1)
      s3 == SpellAmpersand(s2)
      s4 == ReplaceBackslashPattern(s3, Patterns.hipRidge, <<"h","i","p"," ","r","i","d","g","e">>)
      s5 == ReplaceBackslashPattern(s4, Patterns.dripEdge, <<"d","r","i","p"," ","e","d","g","e">>)
      s6 == ReplaceBackslashPattern(s5, Patterns.iceWater, <<"i","c","e"," ","w","a","t","e","r">>)
      s7 == ReplaceBackslashPattern(s6, Patterns.synthetic,
              <<"s","y","n","t","h","e","t","i","c"," ",
                "u","n","d","e","r","l","a","y","m","e","n","t">>)
      s8 == ReplaceBackslashPattern(s7, Patterns.whitespace, <<" ">>)
  IN  trim(s8)

\* const normUnit = (u?: string) => ...
normUnit(u) ==
  LET m == trim(toLowerCase(u)) IN
  CASE m = <<"b","d","l">> -> <<"b","u","n","d","l","e">>
    [] m = <<"r","l">> -> <<"r","o","l","l">>
    [] m = <<"p","c">> -> <<"p","i","e","c","e">>
    [] m = <<"c","t","n">> -> <<"c","a","r","t","o","n">>
    [] m = <<"b","x">> -> <<"b","o","x">>
    [] m = <<"t","b">> -> <<"t","u","b","e">>
    [] m = <<"e","a">> -> <<"e","a","c","h">>
    [] OTHER -> m

\* the score of one catalog entry p for one line item
Score(material, p) ==
  LET mName == norm(material.itemName)
      mUnit == normUnit(material.unitOfMeasure)
      mCat == toLowerCase(material.category)
      pName == norm(p.itemName)
      pUnit == normUnit(p.unitOfMeasure)
      pCat == toLowerCase(p.category)
  IN  IF pName = mName THEN 3
      ELSE IF pCat # <<>> /\ mCat # <<>> /\ pCat = mCat /\ pUnit = mUnit THEN 2
      ELSE IF includes(pName, mName) \/ includes(mName, pName) THEN 1
      ELSE 0

\* if (score > bestScore): a later entry with an equal score replaces the best
KeepsBestOnTie(score, bestScore) == score >= bestScore

\* if (score > bestScore)
KeepsBest(score, bestScore) == score > bestScore

\* for (const p of prices) { ... }: the best entry's price, Undef for null
RECURSIVE BestPrice(_, _, _, _, _)
BestPrice(material, ps, k, best, bestScore) ==
  IF k > Len(ps) THEN best
  ELSE LET score == Score(material, ps[k])
       IN  IF KeepsBest(score, bestScore)
           THEN BestPrice(material, ps, k + 1, ps[k].pricePerUnit, score)
           ELSE BestPrice(material, ps, k + 1, best, bestScore)

\* a || 0 for a number or undefined
OrZero(a) == IF a = Undef \/ a.n = 0 THEN QZero ELSE a

\* the callback of materials.map without the pass-through of priced lines:
\* every line is resolved against the catalog
PriceLineRematched(material, ps) ==
  LET pricePerUnit == OrZero(BestPrice(material, ps, 1, Undef, -1))
  IN  [material EXCEPT !.pricePerUnit = pricePerUnit,
                       !.totalCost = QMul(material.quantity, pricePerUnit)]

\* the callback of materials.map
PriceLine(material, ps) ==
  IF QLt(QZero, OrZero(material.pricePerUnit))
  THEN [material EXCEPT !.totalCost = QMul(material.quantity, material.pricePerUnit)]
  ELSE LET pricePerUnit == OrZero(BestPrice(material, ps, 1, Undef, -1))
       IN  [material EXCEPT !.pricePerUnit = pricePerUnit,
                            !.totalCost = QMul(material.quantity, pricePerUnit)]

applyMaterialPrices(ms, ps) == [i \in DOMAIN ms |-> PriceLine(ms[i], ps)]

\* ------------------------------------ price catalog (seed data) and inputs

Price(name, price, unit, cat) ==
  [itemName |-> name, pricePerUnit |-> price, unitOfMeasure |-> unit, category |-> cat]

\* rows of the seeded price sheet
Prices ==
  [Underlayment |->
     Price(Names.Underlayment, QInt(75), Units.RL, Categories.Underlayment),
   SealantTube |->
     Price(Names.SealantTube, Q(17, 2), Units.TB, Categories.Caulk),
   IceWater |->
     Price(Names.IceWaterUnderlayment, Q(473, 5), Units.RL, Categories.IceWater)]

\* rows a price sheet can also hold: the same name in another case, another
\* product of the same category and unit, a shorter name in another category
OtherPrices ==
  [UnderlaymentUpper |->
     Price(OtherNames.UnderlaymentUpper, QInt(79), Units.RL, Categories.Underlayment),
   Felt |->
     Price(OtherNames.Felt, QInt(40), Units.RL, Categories.Underlayment),
   RoofingUnderlayment |->
     Price(OtherNames.RoofingUnderlayment, QInt(50), Units.EA, <<"M","i","s","c">>)]

Catalogs ==
  SeqsNoRep({Prices.Underlayment, OtherPrices.UnderlaymentUpper, OtherPrices.Felt,
             OtherPrices.RoofingUnderlayment, Prices.SealantTube}, MaxCatalog)

Item(id, name, unit, cat, quantity, price) ==
  [id |-> id, itemName |-> name, unitOfMeasure |-> unit, pricePerUnit |-> price,
   category |-> cat, quantity |-> quantity, totalCost |-> QZero]

\* line items: an unpriced rule line, the same line carrying a price, another
\* unpriced rule line and an unpriced accessory
ItemSet ==
  {Item("r4", Names.Underlayment, Units.RL, Categories.Underlayment, QInt(2), QZero),
   Item("r4", Names.Underlayment, Units.RL, Categories.Underlayment, QInt(2), Q(25, 2)),
   Item("r10", Names.Caulk, Units.TB, Categories.Caulk, QInt(2), QZero),
   Item("accessory-leadBoots", Names.LeadBoot, Units.EA, Categories.Flashing, QInt(3), QZero)}

\* sequences over S of length at most n
RECURSIVE SeqsUpTo(_, _)
SeqsUpTo(S, n) ==
  IF n = 0 THEN {<<>>}
  ELSE LET shorter == SeqsUpTo(S, n - 1)
       IN  shorter \cup {Append(s, x) : s \in shorter, x \in S}

ItemLists == SeqsNoRep(ItemSet, MaxItems)

\* one product name as price sheets and rules spell it: plain, in capitals,
\* with a trademark glyph, a comma, a period, quotation marks, 'and' for '&',
\* and a doubled space
NameVariants ==
  {<<"I","c","e"," ","&"," ","W","a","t","e","r">>,
   <<"I","C","E"," ","&"," ","W","A","T","E","R">>,
   <<"I","c","e"," ","&"," ","W","a","t","e","r","TM">>,
   <<"I","c","e",","," ","&"," ","W","a","t","e","r">>,
   <<"I","c","e"," ","&"," ","W","a","t","e","r",".">>,
   <<"\"","I","c","e","\""," ","&"," ","W","a","t","e","r">>,
   <<"I","c","e"," ","a","n","d"," ","W","a","t","e","r">>,
   <<"I","c","e"," "," ","&"," ","W","a","t","e","r">>}

\* --------------------------------------------------------- measurements

\* RoofMeasurements; the numeric field `pitch` is read by no calculation
Measurements(area, rounded, eaves, rakes, valleys, hips, ridges, lowPitch, ridgeVent, stories, trailer, layer, third, hand, breakdown) ==
  [roofArea |-> area, roofAreaRounded |-> rounded,
   eavesLength |-> eaves, rakesLength |-> rakes, valleysLength |-> valleys,
   hipsLength |-> hips, ridgesLength |-> ridges, lowPitchArea |-> lowPitch,
   hasRidgeVent |-> ridgeVent, stories |-> stories,
   hasTrailerAccess |-> trailer, hasSecondLayer |-> layer,
   thirdStory |-> third, handLoadMaterials |-> hand,
   pitchBreakdown |-> breakdown]

\* measurement sets for the quantity rule engine: fractional, zero and
\* negative values, a supplied and a missing roofAreaRounded
QtyMeasurements ==
  {Measurements(ar[1], ar[2], er[1], er[2], valleys, hr[1], hr[2], lowPitch,
                ridgeVent, QInt(1), TRUE, FALSE, FALSE, FALSE, <<>>) :
     ar \in {<<Q(39, 2), Undef>>, <<QInt(-3), Undef>>,
             <<Q(39, 2), QInt(20)>>, <<QInt(-3), Q(59, 2)>>},
     er \in {<<QZero, QInt(60)>>, <<QInt(90), QInt(60)>>, <<QInt(90), QInt(-100)>>},
     valleys \in {QZero, QInt(67)},
     hr \in {<<QZero, QZero>>, <<QInt(25), QInt(35)>>, <<QZero, QInt(35)>>,
             <<QInt(25), QInt(-8)>>},
     lowPitch \in {QZero, Q(3, 2)},
     ridgeVent \in BOOLEAN}

\* -------------------------------------------------- labor cost calculator

\* const effectiveSquares = Math.max(0, measurements.roofAreaRounded ?? Math.ceil(measurements.roofArea))
LaborEffectiveSquares(m) ==
  QMax(QZero, Coalesce(m.roofAreaRounded, QCeil(m.roofArea)))

\* const defaults: Record<string, { ps?: number; plf?: number }>
Defaults(type) ==
  CASE type = "Standard Install" -> [ps |-> QInt(95), plf |-> Undef]
    [] type = "No Trailer Access" -> [ps |-> QInt(20), plf |-> Undef]
    [] type = "Second Story" -> [ps |-> QInt(10), plf |-> Undef]
    [] type = "Third Story" -> [ps |-> QInt(40), plf |-> Undef]
    [] type = "2nd Layer" -> [ps |-> QInt(15), plf |-> Undef]
    [] type = "Hand Load Materials" -> [ps |-> QInt(10), plf |-> Undef]
    [] type = "High Pitch 8/12" -> [ps |-> QInt(10), plf |-> Undef]
    [] type = "High Pitch 9/12" -> [ps |-> QInt(15), plf |-> Undef]
    [] type = "High Pitch 10/12" -> [ps |-> QInt(20), plf |-> Undef]
    [] type = "High Pitch 11/12" -> [ps |-> QInt(25), plf |-> Undef]
    [] type = "High Pitch 12/12+" -> [ps |-> QInt(30), plf |-> Undef]
    [] type = "Ridge Vent Install" -> [ps |-> Undef, plf |-> QInt(2)]
    [] type = "Mansard Install" -> [ps |-> QInt(350), plf |-> Undef]
    [] type = "Excess Weight Dump Fee" -> [ps |-> QInt(750), plf |-> Undef]

\* laborRates.find(rate => rate.conditionType === type): its index, 0 for undefined
Find(rates, type) ==
  IF \E k \in DOMAIN rates : rates[k].conditionType = type
  THEN CHOOSE k \in DOMAIN rates :
         /\ rates[k].conditionType = type
         /\ \A j \in 1..(k - 1) : rates[j].conditionType # type
  ELSE 0

LaborItem(id, type, description, rps, rlf, quantity, totalCost) ==
  [id |-> id, conditionType |-> type, description |-> description,
   ratePerSquare |-> rps, ratePerLinearFoot |-> rlf,
   quantity |-> quantity, totalCost |-> totalCost]

\* a line billed per square at defaults[type].ps ?? rate.ratePerSquare ?? 0,
\* emitted when the catalog holds an entry of the type
PerSquareLine(rates, type, quantity) ==
  LET k == Find(rates, type) IN
  IF k = 0 THEN <<>>
  ELSE LET rps == Coalesce(Coalesce(Defaults(type).ps, rates[k].ratePerSquare), QZero)
       IN  << LaborItem(rates[k].id, rates[k].conditionType, rates[k].description,
                        rps, rates[k].ratePerLinearFoot, quantity, QMul(quantity, rps)) >>

\* const pitchUpcharges = [...]
pitchUpcharges ==
  << [label |-> <<"8","/","1","2">>, type |-> "High Pitch 8/12"],
     [label |-> <<"9","/","1","2">>, type |-> "High Pitch 9/12"],
     [label |-> <<"1","0","/","1","2">>, type |-> "High Pitch 10/12"],
     [label |-> <<"1","1","/","1","2">>, type |-> "High Pitch 11/12"],
     [label |-> <<"1","2","/","1","2","+">>, type |-> "High Pitch 12/12+"] >>

\* the body of for (const part of breakdown)
PitchLine(rates, part) ==
  LET hits == {u \in DOMAIN pitchUpcharges : startsWith(part.pitch, pitchUpcharges[u].label)}
  IN  IF hits = {} THEN <<>>
      ELSE LET match == pitchUpcharges[CHOOSE u \in hits : \A v \in hits : u <= v]
               sq == QMax(QZero, OrZero(part.squares))
           IN  PerSquareLine(rates, match.type, sq)

RECURSIVE PitchLines(_, _)
PitchLines(rates, breakdown) ==
  IF breakdown = <<>> THEN <<>>
  ELSE PitchLine(rates, Head(breakdown)) \o PitchLines(rates, Tail(breakdown))

\* a || b for a number or undefined
OrElse(a, b) == IF a = Undef \/ a.n = 0 THEN b ELSE a

\* the fee of a disposal entry: ratePerSquare || ratePerLinearFoot || fallback
DisposalFee(rates, k, fallback) ==
  IF k = 0 THEN fallback
  ELSE OrElse(rates[k].ratePerSquare, OrElse(rates[k].ratePerLinearFoot, fallback))

\* one excess fee once the roof is over 30 squares
ExtraCountOver30(effectiveSquares) ==
  IF QLt(QInt(30), effectiveSquares) THEN QInt(1) ELSE QZero

\* const extraCount = Math.max(0, Math.floor(effectiveSquares / 30))
ExtraCount(effectiveSquares) ==
  QMax(QZero, QFloor(QDiv(effectiveSquares, QInt(30))))

calculateLaborCosts(m, rates) ==
  LET effectiveSquares == LaborEffectiveSquares(m)
      baseInstall == PerSquareLine(rates, "Standard Install", effectiveSquares)
      story ==
        IF m.thirdStory THEN PerSquareLine(rates, "Third Story", effectiveSquares)
        ELSE IF QLe(QInt(2), m.stories)
             THEN PerSquareLine(rates, "Second Story", effectiveSquares)
             ELSE <<>>
      pitch == PitchLines(rates, m.pitchBreakdown)
      noTrailer ==
        IF ~m.hasTrailerAccess
        THEN PerSquareLine(rates, "No Trailer Access", effectiveSquares) ELSE <<>>
      secondLayer ==
        IF m.hasSecondLayer
        THEN PerSquareLine(rates, "2nd Layer", effectiveSquares) ELSE <<>>
      rv == Find(rates, "Ridge Vent Install")
      ridgeVent ==
        IF rv # 0 /\ m.hasRidgeVent /\ QLt(QZero, m.ridgesLength)
        THEN LET rlf == Coalesce(Coalesce(Defaults("Ridge Vent Install").plf,
                                          rates[rv].ratePerLinearFoot), QZero)
             IN  << LaborItem(rates[rv].id, rates[rv].conditionType, rates[rv].description,
                              rates[rv].ratePerSquare, rlf, m.ridgesLength,
                              QMul(m.ridgesLength, rlf)) >>
        ELSE <<>>
      handLoad ==
        IF m.handLoadMaterials
        THEN PerSquareLine(rates, "Hand Load Materials", effectiveSquares) ELSE <<>>
      bd == Find(rates, "Dump Fee")
      baseDump ==
        << LaborItem(IF bd = 0 THEN "dump-fee-base" ELSE rates[bd].id,
                     "Dump Fee",
                     IF bd = 0 THEN "Standard Dump Fee" ELSE rates[bd].description,
                     Undef, Undef, QInt(1), DisposalFee(rates, bd, QInt(450))) >>
      extraCount == ExtraCount(effectiveSquares)
      de == Find(rates, "Excess Weight Dump Fee")
      dumpExtra ==
        IF QLt(QZero, extraCount)
        THEN << LaborItem(IF de = 0 THEN "dump-fee-extra" ELSE rates[de].id,
                          "Excess Weight Dump Fee",
                          IF de = 0 THEN "Excess Weight Dump Fee" ELSE rates[de].description,
                          Undef, Undef, extraCount,
                          QMul(extraCount, DisposalFee(rates, de, QInt(750)))) >>
        ELSE <<>>
  IN  baseInstall \o story \o pitch \o noTrailer \o secondLayer \o ridgeVent
        \o handLoad \o baseDump \o dumpExtra

\* ------------------------------------ labor rates (seed data) and inputs

Rate(id, type, description, rps, rlf) ==
  [id |-> id, conditionType |-> type, description |-> description,
   ratePerSquare |-> rps, ratePerLinearFoot |-> rlf]

\* the labor rates inserted by the migration
Rates ==
  [Standard |->
     Rate("l1", "Standard Install", "Standard roof installation", QInt(95), Undef),
   NoTrailer |->
     Rate("l2", "No Trailer Access", "No trailer access upcharge", QInt(20), Undef),
   SecondStory |->
     Rate("l3", "Second Story", "Second story upcharge", QInt(20), Undef),
   ThirdStory |->
     Rate("l4", "Third Story", "Third story upcharge", QInt(40), Undef),
   SecondLayer |->
     Rate("l5", "2nd Layer", "Second layer of shingles removal", QInt(30), Undef),
   HandLoad |->
     Rate("l6", "Hand Load Materials", "Hand load materials upcharge", QInt(20), Undef),
   Pitch8 |->
     Rate("l7", "High Pitch 8/12", "8/12 pitch upcharge", QInt(20), Undef),
   Pitch9 |->
     Rate("l8", "High Pitch 9/12", "9/12 pitch upcharge", QInt(30), Undef),
   Pitch10 |->
     Rate("l9", "High Pitch 10/12", "10/12 pitch upcharge", QInt(40), Undef),
   Pitch11 |->
     Rate("l10", "High Pitch 11/12", "11/12 pitch upcharge", QInt(50), Undef),
   Pitch12 |->
     Rate("l11", "High Pitch 12/12+", "12/12 or greater pitch upcharge", QInt(60), Undef),
   RidgeVent |->
     Rate("l12", "Ridge Vent Install", "Ridge vent installation", Undef, QInt(25)),
   Mansard |->
     Rate("l13", "Mansard Install", "Mansard roof installation", QInt(350), Undef),
   ExcessDump |->
     Rate("l14", "Excess Weight Dump", "Excess weight dump fee >30SQ", QInt(750), Undef)]

\* the labor rates inserted by the migration, in order
SeededRates ==
  <<Rates.Standard, Rates.NoTrailer, Rates.SecondStory, Rates.ThirdStory, Rates.SecondLayer, Rates.HandLoad,
    Rates.Pitch8, Rates.Pitch9, Rates.Pitch10, Rates.Pitch11, Rates.Pitch12, Rates.RidgeVent, Rates.Mansard, Rates.ExcessDump>>

\* entries an administrator can add for the two disposal fees
OtherRates ==
  [DumpFee |->
     Rate("l15", "Dump Fee", "Dump fee", QInt(500), Undef),
   DumpFeePerFoot |->
     Rate("l16", "Dump Fee", "Dump fee per foot", QZero, QInt(475)),
   ExcessDumpFee |->
     Rate("l17", "Excess Weight Dump Fee", "Excess weight", QInt(800), Undef)]

\* the seeded catalog, the seeded catalog with the disposal entries, and
\* every list of six entries up to MaxRates (the empty catalog included)
RateLists ==
  SeqsNoRep({Rates.Standard, Rates.SecondStory, Rates.Pitch10, OtherRates.DumpFee,
             OtherRates.DumpFeePerFoot, OtherRates.ExcessDumpFee}, MaxRates)
    \cup {SeededRates, SeededRates \o <<OtherRates.DumpFee, OtherRates.ExcessDumpFee>>}

Pitch(label, squares) == [pitch |-> label, squares |-> squares]

\* pitch labels as the report prints them
Labels ==
  [k6 |->
     <<"6","/","1","2">>,
   k8 |->
     <<"8","/","1","2">>,
   k10 |->
     <<"1","0","/","1","2">>,
   k12 |->
     <<"1","2","/","1","2">>,
   k12Spaced |->
     <<"1","2"," ","/"," ","1","2"," ">>,
   flat |->
     <<"F","l","a","t">>]

Breakdowns ==
  { <<>>,
    << Pitch(Labels.k6, QInt(18)), Pitch(Labels.k10, Q(5, 2)) >>,
    << Pitch(Labels.k8, QInt(4)), Pitch(Labels.k12, QInt(3)), Pitch(Labels.k10, QInt(-1)) >> }

\* measurement sets for the labor calculator: effective squares around the
\* disposal tiers, every option flag, flat and steep pitch breakdowns
LaborMeasurements ==
  {Measurements(Q(39, 2), rounded, QInt(90), QInt(60), QZero, QInt(25), rv[2], QZero,
                rv[1], st[1], trailer, lh[1], st[2], lh[2], breakdown) :
     rounded \in {Undef, QInt(29), QInt(30), QInt(61), Q(59, 2), QInt(-2)},
     rv \in {<<FALSE, QInt(35)>>, <<TRUE, QInt(35)>>, <<TRUE, QZero>>},
     st \in {<<QInt(1), FALSE>>, <<QInt(2), FALSE>>, <<QInt(2), TRUE>>},
     trailer \in BOOLEAN,
     lh \in {<<FALSE, FALSE>>, <<TRUE, FALSE>>, <<FALSE, TRUE>>},
     breakdown \in Breakdowns}

\* --------------------------------------------------- total cost aggregator

\* items.reduce((sum, item) => sum + item.totalCost, 0)
RECURSIVE SumTotalCost(_)
SumTotalCost(items) ==
  IF items = <<>> THEN QZero
  ELSE QAdd(Head(items).totalCost, SumTotalCost(Tail(items)))

\* a misplaced decimal point: 0.8 for 0.08
TaxRateMisplaced == Q(8, 10)
\* const materialTax = totalMaterialCost * 0.08
TaxRate == Q(8, 100)

\* Math.max(0.28, Math.min(0.53, contributionX)): the bounds of an earlier
\* revision of the calculator
ClampEarlier(cx) == QMax(Q(28, 100), QMin(Q(53, 100), cx))

\* const x = contributionX: the fraction is used as it comes
ClampNone(cx) == cx

\* const x = Math.max(0.26, Math.min(0.51, contributionX))
Clamp(cx) == QMax(Q(26, 100), QMin(Q(51, 100), cx))

\* the summary with the profit taken as a share of the subtotal (a markup),
\* not of the total
calculateTotalCostsMarkup(ms, labor, cx) ==
  LET contribution == IF cx = Undef THEN Q(46, 100) ELSE cx
      totalMaterialCost == SumTotalCost(ms)
      totalLaborCost == SumTotalCost(labor)
      materialTax == QMul(totalMaterialCost, TaxRate)
      subtotal == QAdd(QAdd(totalMaterialCost, materialTax), totalLaborCost)
      x == Clamp(contribution)
      totalCost == IF QLt(QZero, x) THEN QDiv(subtotal, x) ELSE subtotal
      profit == QSub(totalCost, subtotal)
      profitMargin == IF QLt(QZero, totalCost) THEN QDiv(profit, subtotal) ELSE QZero
  IN  [totalMaterialCost |-> totalMaterialCost,
       totalLaborCost |-> totalLaborCost,
       materialTax |-> materialTax,
       subtotal |-> subtotal,
       profit |-> profit,
       totalCost |-> totalCost,
       profitMargin |-> profitMargin]

\* contributionX: number = 0.46 is the default of a missing argument
calculateTotalCosts(ms, labor, cx) ==
  LET contribution == IF cx = Undef THEN Q(46, 100) ELSE cx
      totalMaterialCost == SumTotalCost(ms)
      totalLaborCost == SumTotalCost(labor)
      materialTax == QMul(totalMaterialCost, TaxRate)
      subtotal == QAdd(QAdd(totalMaterialCost, materialTax), totalLaborCost)
      x == Clamp(contribution)
      totalCost == IF QLt(QZero, x) THEN QDiv(subtotal, x) ELSE subtotal
      profit == QSub(totalCost, subtotal)
      profitMargin == IF QLt(QZero, totalCost) THEN QDiv(profit, totalCost) ELSE QZero
  IN  [totalMaterialCost |-> totalMaterialCost,
       totalLaborCost |-> totalLaborCost,
       materialTax |-> materialTax,
       subtotal |-> subtotal,
       profit |-> profit,
       totalCost |-> totalCost,
       profitMargin |-> profitMargin]

\* priced material lines and labor lines by their extended cost
CostedMaterials ==
  {[Item("r4", Names.Underlayment, Units.RL, Categories.Underlayment, QInt(2), QDiv(cost, QInt(2)))
      EXCEPT !.totalCost = cost] : cost \in {QZero, QInt(500), Q(25, 2)}}

CostedLabor ==
  {LaborItem("l1", "Standard Install", "Standard roof installation",
             QInt(95), Undef, QDiv(cost, QInt(95)), cost) : cost \in {QInt(460), QInt(950)}}
    \cup {LaborItem("dump-fee-base", "Dump Fee", "Standard Dump Fee",
                    Undef, Undef, QInt(1), QInt(450))}

\* contribution fractions below, inside and above the clamp range, and none
Contributions ==
  {Undef, QInt(-1), QZero, Q(1, 10), Q(26, 100), Q(40, 100), Q(46, 100),
   Q(51, 100), Q(60, 100), QInt(1)}

\* ------------------------------------------------- measurement normalizer

\* null, and the undefined an optional chain yields on it
Null == Undef

\* w?.squares
WasteSquares(w) == IF w = Null THEN Undef ELSE w.squares

LinearFeet(ridges, hips, valleys, rakes, eaves, drip) ==
  [ridges_ft |-> ridges, hips_ft |-> hips, valleys_ft |-> valleys,
   rakes_ft |-> rakes, eaves_ft |-> eaves, flashing_ft |-> QZero,
   step_flashing_ft |-> QZero, drip_edge_ft |-> drip]

EagleViewPitch(label, area, percent) ==
  [pitch |-> label, area_sqft |-> area, percent_of_roof |-> percent]

EagleViewStructure(number, area, pitch, waste, feet, breakdown) ==
  [structure_number |-> number, total_area_sqft |-> area,
   predominant_pitch |-> pitch, measurements |-> feet,
   pitch_breakdown |-> breakdown, suggested_waste |-> waste]

\* data.structures.find(s => s.structure_number === number) || data.structures[at]
FindStructure(structures, number, at) ==
  LET hits == {i \in DOMAIN structures : structures[i].structure_number = number}
  IN  IF hits # {} THEN structures[CHOOSE i \in hits : \A j \in hits : i <= j]
      ELSE structures[at]

getStructure1(d) ==
  IF Len(d.structures) > 0 THEN FindStructure(d.structures, 1, 1) ELSE Null

getStructure2(d) ==
  IF Len(d.structures) > 1 THEN FindStructure(d.structures, 2, 2) ELSE Null

getStructure3(d) ==
  IF Len(d.structures) > 2 THEN FindStructure(d.structures, 3, 3) ELSE Null

\* merged.set(p.pitch, { ...p }): a known key keeps its place in the map
MapSet(map, p) ==
  LET hits == {i \in DOMAIN map : map[i].pitch = p.pitch}
  IN  IF hits = {} THEN Append(map, p)
      ELSE [map EXCEPT ![CHOOSE i \in hits : TRUE] = p]

\* for (const p of pitches1) merged.set(p.pitch, { ...p })
RECURSIVE SetAll(_, _)
SetAll(map, pitches) ==
  IF pitches = <<>> THEN map
  ELSE SetAll(MapSet(map, Head(pitches)), Tail(pitches))

\* existing.area_sqft += p.area_sqft when the key is known, else set
MapAdd(map, p) ==
  LET hits == {i \in DOMAIN map : map[i].pitch = p.pitch}
  IN  IF hits = {} THEN Append(map, p)
      ELSE LET i == CHOOSE k \in hits : TRUE
           IN  [map EXCEPT ![i].area_sqft = QAdd(map[i].area_sqft, p.area_sqft)]

\* for (const p of pitches2) ...
RECURSIVE AddAll(_, _)
AddAll(map, pitches) ==
  IF pitches = <<>> THEN map
  ELSE AddAll(MapAdd(map, Head(pitches)), Tail(pitches))

mergePitchBreakdowns(p1, p2) == AddAll(SetAll(<<>>, p1), p2)

\* parseInt(digits, 10)
RECURSIVE parseInt(_)
parseInt(digits) ==
  IF digits = <<>> THEN 0
  ELSE LET c == digits[Len(digits)]
           value ==
             CASE c = "0" -> 0 [] c = "1" -> 1 [] c = "2" -> 2 [] c = "3" -> 3
               [] c = "4" -> 4 [] c = "5" -> 5 [] c = "6" -> 6 [] c = "7" -> 7
               [] c = "8" -> 8 [] c = "9" -> 9
       IN  10 * parseInt(SubSeq(digits, 1, Len(digits) - 1)) + value

\* the first position at or after i that holds no character of the class
SkipWhile(s, i, class) ==
  LET stops == {j \in i..Len(s) : s[j] \notin class}
  IN  IF stops = {} THEN Len(s) + 1 ELSE CHOOSE j \in stops : \A k \in stops : j <= k

\* /^(\d+)\s*\/\s*12$/.exec(pred), then parseInt(steep[1], 10) or 0
steepVal(pred) ==
  LET afterDigits == SkipWhile(pred, 1, Digits)
      slash == SkipWhile(pred, afterDigits, {" "})
      twelve == SkipWhile(pred, slash + 1, {" "})
      matches ==
        /\ afterDigits > 1
        /\ slash <= Len(pred)
        /\ pred[slash] = "/"
        /\ SubSeq(pred, twelve, Len(pred)) = <<"1", "2">>
  IN  IF matches THEN parseInt(SubSeq(pred, 1, afterDigits - 1)) ELSE 0

\* the squares derived for a structure that carries no suggested waste
\* (getCombinedMeasurements, for the second structure)
s2Derived(s2) ==
  LET baseSquares == QDiv(OrZero(s2.total_area_sqft), QInt(100))
      pred == trim(s2.predominant_pitch)
      wastePct ==
        IF QLt(QZero, baseSquares) /\ QLt(baseSquares, QInt(2)) THEN 94
        ELSE IF steepVal(pred) >= 10 THEN 18
        ELSE 12
  IN  QMul(baseSquares, QAdd(QInt(1), Q(wastePct, 100)))

\* const sumSquares = (s) => ... (getSelectedMeasurements)
sumSquares(s) ==
  LET given == Coalesce(WasteSquares(s.suggested_waste), QZero)
      base == QDiv(OrZero(s.total_area_sqft), QInt(100))
      pred == trim(s.predominant_pitch)
      waste ==
        IF QLt(QZero, base) /\ QLt(base, QInt(2)) THEN 94
        ELSE IF steepVal(pred) >= 10 THEN 18
        ELSE 12
      sq == IF given.n <= 0 THEN QMul(base, QAdd(QInt(1), Q(waste, 100))) ELSE given
  IN  QCeil(OrZero(sq))

getStructure1Measurements(d) ==
  LET s1 == getStructure1(d) IN
  IF s1 = Null
  THEN [total_area_sqft |-> d.roof_measurements.total_area_sqft,
        ridges_ft |-> d.roof_measurements.ridges_ft,
        hips_ft |-> d.roof_measurements.hips_ft,
        valleys_ft |-> d.roof_measurements.valleys_ft,
        rakes_ft |-> d.roof_measurements.rakes_ft,
        eaves_ft |-> d.roof_measurements.eaves_ft,
        flashing_ft |-> d.roof_measurements.flashing_ft,
        step_flashing_ft |-> d.roof_measurements.step_flashing_ft,
        drip_edge_ft |-> d.roof_measurements.drip_edge_ft,
        predominant_pitch |-> d.roof_measurements.predominant_pitch,
        suggested_squares |-> OrZero(WasteSquares(d.suggested_waste)),
        pitch_breakdown |-> d.pitch_breakdown]
  ELSE [total_area_sqft |-> s1.total_area_sqft,
        ridges_ft |-> s1.measurements.ridges_ft,
        hips_ft |-> s1.measurements.hips_ft,
        valleys_ft |-> s1.measurements.valleys_ft,
        rakes_ft |-> s1.measurements.rakes_ft,
        eaves_ft |-> s1.measurements.eaves_ft,
        flashing_ft |-> s1.measurements.flashing_ft,
        step_flashing_ft |-> s1.measurements.step_flashing_ft,
        drip_edge_ft |-> s1.measurements.drip_edge_ft,
        predominant_pitch |-> s1.predominant_pitch,
        suggested_squares |->
          Coalesce(WasteSquares(s1.suggested_waste),
                   Coalesce(WasteSquares(d.suggested_waste), QZero)),
        pitch_breakdown |-> s1.pitch_breakdown]

getCombinedMeasurements(d) ==
  LET s1 == getStructure1(d)
      s2 == getStructure2(d)
  IN
  IF s1 = Null \/ s2 = Null THEN getStructure1Measurements(d)
  ELSE
    LET s1Squares == Coalesce(WasteSquares(s1.suggested_waste),
                              Coalesce(WasteSquares(d.suggested_waste), QZero))
        s2Given == Coalesce(WasteSquares(s2.suggested_waste), QZero)
        s2Squares == IF s2Given.n <= 0 THEN s2Derived(s2) ELSE s2Given
        s1Rounded == QCeil(OrZero(s1Squares))
        s2Rounded == QCeil(OrZero(s2Squares))
    IN  [total_area_sqft |-> QAdd(s1.total_area_sqft, s2.total_area_sqft),
         ridges_ft |-> QAdd(s1.measurements.ridges_ft, s2.measurements.ridges_ft),
         hips_ft |-> QAdd(s1.measurements.hips_ft, s2.measurements.hips_ft),
         valleys_ft |-> QAdd(s1.measurements.valleys_ft, s2.measurements.valleys_ft),
         rakes_ft |-> QAdd(s1.measurements.rakes_ft, s2.measurements.rakes_ft),
         eaves_ft |-> QAdd(s1.measurements.eaves_ft, s2.measurements.eaves_ft),
         flashing_ft |-> QAdd(s1.measurements.flashing_ft, s2.measurements.flashing_ft),
         step_flashing_ft |->
           QAdd(s1.measurements.step_flashing_ft, s2.measurements.step_flashing_ft),
         drip_edge_ft |-> QAdd(s1.measurements.drip_edge_ft, s2.measurements.drip_edge_ft),
         predominant_pitch |-> s1.predominant_pitch,
         suggested_squares |-> QAdd(s1Rounded, s2Rounded),
         pitch_breakdown |-> mergePitchBreakdowns(s1.pitch_breakdown, s2.pitch_breakdown)]

\* values.reduce((a, v) => a + v, 0)
RECURSIVE SumSeq(_)
SumSeq(values) ==
  IF values = <<>> THEN QZero ELSE QAdd(Head(values), SumSeq(Tail(values)))

\* structs.reduce((acc, st) => mergePitchBreakdowns(acc, st.pitch_breakdown), [])
RECURSIVE MergeAll(_, _)
MergeAll(acc, structs) ==
  IF structs = <<>> THEN acc
  ELSE MergeAll(mergePitchBreakdowns(acc, Head(structs).pitch_breakdown), Tail(structs))

\* merged.set(p.pitch, p): the map holds the elements of the list themselves
HeldByReferenceAll(pitches) == DOMAIN pitches

\* the elements of a list that the map of mergePitchBreakdowns holds by
\* reference after merged.set(p.pitch, { ...p }): the spread makes a new
\* object of each, so none
HeldByReference(pitches) == {}

\* the two argument lists as the caller finds them after the call:
\* existing.area_sqft += p.area_sqft writes to the object the map holds under
\* the label, which is the last element of pitches1 with the label, or else
\* the first of pitches2, when the map holds that element by reference
InputsAfterMerge(p1, p2) ==
  LET inMapFrom1(i) == \A j \in DOMAIN p1 : j > i => p1[j].pitch # p1[i].pitch
      inMapFrom2(k) ==
        /\ \A i \in DOMAIN p1 : p1[i].pitch # p2[k].pitch
        /\ \A j \in DOMAIN p2 : j < k => p2[j].pitch # p2[k].pitch
      added(label, from) ==
        SumSeq([k \in DOMAIN p2 |->
                  IF k > from /\ p2[k].pitch = label THEN p2[k].area_sqft ELSE QZero])
  IN  [pitches1 |->
         [i \in DOMAIN p1 |->
            IF i \in HeldByReference(p1) /\ inMapFrom1(i)
            THEN [p1[i] EXCEPT !.area_sqft = QAdd(@, added(p1[i].pitch, 0))]
            ELSE p1[i]],
       pitches2 |->
         [k \in DOMAIN p2 |->
            IF k \in HeldByReference(p2) /\ inMapFrom2(k)
            THEN [p2[k] EXCEPT !.area_sqft = QAdd(@, added(p2[k].pitch, k))]
            ELSE p2[k]]]

\* the report with the pitch segments of structure s as a call left them
WithPitches(d, s, segments) ==
  [d EXCEPT !.structures =
     [i \in DOMAIN @ |-> IF @[i] = s THEN [@[i] EXCEPT !.pitch_breakdown = segments]
                          ELSE @[i]]]

\* the report after structs.reduce((acc, st) => mergePitchBreakdowns(acc,
\* st.pitch_breakdown), []): each structure's list was the second argument
RECURSIVE AfterMergeAll(_, _, _)
AfterMergeAll(d, acc, structs) ==
  IF structs = <<>> THEN d
  ELSE AfterMergeAll(
         WithPitches(d, Head(structs),
                     InputsAfterMerge(acc, Head(structs).pitch_breakdown).pitches2),
         mergePitchBreakdowns(acc, Head(structs).pitch_breakdown), Tail(structs))

\* the structures getSelectedMeasurements collects
SelectedStructures(d, inc2, inc3) ==
  LET s2 == getStructure2(d)
      s3 == getStructure3(d)
  IN  <<getStructure1(d)>>
        \o (IF inc2 /\ s2 # Null THEN <<s2>> ELSE <<>>)
        \o (IF inc3 /\ s3 # Null THEN <<s3>> ELSE <<>>)

getSelectedMeasurements(d, inc2, inc3) ==
  IF getStructure1(d) = Null THEN getStructure1Measurements(d)
  ELSE
    LET structs == SelectedStructures(d, inc2, inc3) IN
    IF Len(structs) = 1 THEN getStructure1Measurements(d)
    ELSE
      [total_area_sqft |-> SumSeq([i \in DOMAIN structs |-> OrZero(structs[i].total_area_sqft)]),
       ridges_ft |-> SumSeq([i \in DOMAIN structs |-> OrZero(structs[i].measurements.ridges_ft)]),
       hips_ft |-> SumSeq([i \in DOMAIN structs |-> OrZero(structs[i].measurements.hips_ft)]),
       valleys_ft |-> SumSeq([i \in DOMAIN structs |-> OrZero(structs[i].measurements.valleys_ft)]),
       rakes_ft |-> SumSeq([i \in DOMAIN structs |-> OrZero(structs[i].measurements.rakes_ft)]),
       eaves_ft |-> SumSeq([i \in DOMAIN structs |-> OrZero(structs[i].measurements.eaves_ft)]),
       flashing_ft |-> SumSeq([i \in DOMAIN structs |-> OrZero(structs[i].measurements.flashing_ft)]),
       step_flashing_ft |-> SumSeq([i \in DOMAIN structs |-> OrZero(structs[i].measurements.step_flashing_ft)]),
       drip_edge_ft |-> SumSeq([i \in DOMAIN structs |-> OrZero(structs[i].measurements.drip_edge_ft)]),
       predominant_pitch |-> structs[1].predominant_pitch,
       suggested_squares |-> SumSeq([i \in DOMAIN structs |-> sumSquares(structs[i])]),
       pitch_breakdown |->
         mergePitchBreakdowns(structs[1].pitch_breakdown, MergeAll(<<>>, Tail(structs)))]

\* ------------------------------------------------ reports and pitch lists

\* structures of a parsed report
\* structure 1 with the waste figure of the report, 6/12
Structures ==
  [Main |->
     EagleViewStructure(1, QInt(2350), Labels.k6, [squares |-> Q(264, 10)],
     LinearFeet(QInt(35), QInt(25), QInt(12), QInt(60), QInt(90), QInt(150)),
     <<EagleViewPitch(Labels.k6, QInt(2000), QInt(85)),
     EagleViewPitch(Labels.k8, QInt(350), QInt(15))>>),
   \* structure 1 without a waste figure, 10/12
   MainNoWaste |->
     EagleViewStructure(1, QInt(2350), Labels.k10, Null,
     LinearFeet(QInt(35), QInt(25), QInt(12), QInt(60), QInt(90), QInt(150)),
     <<EagleViewPitch(Labels.k10, QInt(2350), QInt(100))>>),
   \* a detached garage without a waste figure
   Garage |->
     EagleViewStructure(2, QInt(480), Labels.k6, Null,
     LinearFeet(QInt(24), QZero, QZero, QInt(40), QInt(48), QInt(88)),
     <<EagleViewPitch(Labels.k6, QInt(480), QInt(100))>>),
   \* the garage with a waste figure
   GarageWaste |->
     EagleViewStructure(2, QInt(480), Labels.k6, [squares |-> Q(53, 10)],
     LinearFeet(QInt(24), QZero, QZero, QInt(40), QInt(48), QInt(88)),
     <<EagleViewPitch(Labels.k6, QInt(400), QInt(83)),
     EagleViewPitch(Labels.k8, QInt(80), QInt(17))>>),
   \* a porch under two squares, with a zero waste figure
   Porch |->
     EagleViewStructure(2, QInt(150), Labels.flat, [squares |-> QZero],
     LinearFeet(QZero, QZero, QZero, QInt(20), QInt(15), QInt(35)),
     <<EagleViewPitch(Labels.flat, QInt(150), QInt(100))>>),
   \* a steep shed without a waste figure
   Shed |->
     EagleViewStructure(3, QInt(310), Labels.k12Spaced, Null,
     LinearFeet(QInt(16), QZero, QZero, QInt(30), QInt(32), QInt(62)),
     <<EagleViewPitch(Labels.k12Spaced, QInt(310), QInt(100))>>),
   Barn |->
     EagleViewStructure(4, QInt(900), Labels.k8, [squares |-> Q(101, 10)],
     LinearFeet(QInt(30), QZero, QZero, QInt(50), QInt(60), QInt(110)),
     <<EagleViewPitch(Labels.k8, QInt(900), QInt(100))>>)]

\* lists of structures with distinct structure numbers
StructureLists ==
  {<<>>} \cup
    {l \in SeqsNoRep({Structures[k] : k \in DOMAIN Structures}, MaxStructures) :
       \A i, j \in DOMAIN l : i # j => l[i].structure_number # l[j].structure_number}

\* the report-level totals of a parsed report
EagleViewParserOutput(structures, waste) ==
  [roof_measurements |->
     [total_area_sqft |-> QInt(2830), predominant_pitch |-> Labels.k6,
      ridges_ft |-> QInt(59), hips_ft |-> QInt(25), valleys_ft |-> QInt(12),
      rakes_ft |-> QInt(100), eaves_ft |-> QInt(138), flashing_ft |-> QZero,
      step_flashing_ft |-> QZero, drip_edge_ft |-> QInt(238)],
   pitch_breakdown |-> <<EagleViewPitch(Labels.k6, QInt(2480), QInt(88)),
                         EagleViewPitch(Labels.k8, QInt(350), QInt(12))>>,
   suggested_waste |-> waste,
   structures |-> structures]

Reports ==
  {EagleViewParserOutput(l, w) : l \in StructureLists, w \in {Null, [squares |-> Q(307, 10)]}}

\* pitch-segment lists of one structure, a label listed once or twice
PitchSegments ==
  {EagleViewPitch(Labels.k6, QInt(1200), QInt(60)), EagleViewPitch(Labels.k8, QInt(100), QInt(5)),
   EagleViewPitch(Labels.k8, QInt(50), QInt(3)), EagleViewPitch(Labels.k10, QInt(310), QInt(16))}

PitchLists == SeqsUpTo(PitchSegments, MaxPitches)

\* -------------------------------------------------------- financing fee

\* notes: financed ? `${jobDetails.notes || ''} [Financed]`.trim() : jobDetails.notes
estimateNotes(text, flag) ==
  IF flag THEN trim(text \o <<" ","[","F","i","n","a","n","c","e","d","]">>) ELSE text

\* const isFinanced = String(estimate.notes || '').toLowerCase().includes('financed')
isFinanced(text) == includes(toLowerCase(text), <<"f","i","n","a","n","c","e","d">>)

\* const totalsWithFee = isFinanced ? { ...totals, totalCost: totals.totalCost + 500 } : totals
TotalsWithFee(t, text) ==
  IF isFinanced(text) THEN [t EXCEPT !.totalCost = QAdd(@, QInt(500))] ELSE t

\* notes typed into the job form: none, "Cash job", "Not financed"
JobNotes ==
  {<<>>,
   <<"C","a","s","h"," ","j","o","b">>,
   <<"N","o","t"," ","f","i","n","a","n","c","e","d">>}

\* ------------------------------------------------ inputs of a full estimate

\* one rule for each formula of the switch and the sealant rule, which shares
\* the formula of the nails
ScenarioRules ==
  <<Rules.Shingles, Rules.HipRidge, Rules.RidgeVent, Rules.Underlayment, Rules.Starter, Rules.DripEdge,
    Rules.IceWater, Rules.Nails, Rules.Caulk, Rules.Plybase, Rules.CapSheet>>

\* measurement sets around a one-story roof of 20 effective squares
EstimateMeasurements ==
  {Measurements(ar[1], ar[2], QInt(90), QInt(60), valleys, QInt(25), QInt(35), QZero,
                ridgeVent, QInt(1), TRUE, FALSE, FALSE, FALSE, <<Pitch(Labels.k6, QInt(20))>>) :
     ar \in {<<Q(39, 2), Undef>>, <<Q(37, 2), QInt(20)>>, <<QInt(29), QInt(30)>>},
     valleys \in {QZero, QInt(66)},
     ridgeVent \in BOOLEAN}

\* ------------------------------------------------------ idle values

NoMeasurements ==
  Measurements(QZero, Undef, QZero, QZero, QZero, QZero, QZero, QZero,
               FALSE, QInt(1), TRUE, FALSE, FALSE, FALSE, <<>>)

NoTotals ==
  [totalMaterialCost |-> QZero, totalLaborCost |-> QZero, materialTax |-> QZero,
   subtotal |-> QZero, profit |-> QZero, totalCost |-> QZero, profitMargin |-> QZero]

NoData == EagleViewParserOutput(<<>>, Null)

NoMeas == getStructure1Measurements(NoData)

IdleCalculations ==
  /\ measurements = NoMeasurements
  /\ rules = <<>>
  /\ materials = <<>>
  /\ prices = <<>>
  /\ pricedMaterials = <<>>
  /\ laborRates = <<>>
  /\ laborItems = <<>>
  /\ contributionX = QZero
  /\ totals = NoTotals

IdleNormalizer ==
  /\ data = NoData
  /\ include2 = FALSE
  /\ include3 = FALSE
  /\ meas = NoMeas

IdlePitches ==
  /\ pitches1 = <<>>
  /\ pitches2 = <<>>
  /\ merged = <<>>

IdleFinancing ==
  /\ jobNotes = <<>>
  /\ financed = FALSE
  /\ notes = <<>>
  /\ totalsWithFee = NoTotals
  /\ financeTotal = QZero

\* no API user, no stored estimate, no save in flight, no response sent, the
\* slider at useState(0.40)
IdlePage ==
  /\ role = "estimator"
  /\ stored = Null
  /\ puts = {}
  /\ response = Null
  /\ contributionPct = Q(40, 100)

\* ------------------------------------- estimates API and estimate page

\* positions of the contribution slider: min 0.35, max 0.60
SliderPositions == {Q(35, 100), Q(40, 100), Q(60, 100)}

\* a row of the estimates table, by the columns the page saves
Estimate(material_costs, total_cost, profit_margin) ==
  [material_costs |-> material_costs, total_cost |-> total_cost,
   profit_margin |-> profit_margin]

\* const updatedEstimate = { ...estimate, material_costs: materialsWithPrices,
\* total_cost: totalsWithFee.totalCost, profit_margin: contributionPct }, the
\* totals being computed at x = 0.86 - contributionPct
updatedEstimate(pct) ==
  LET t == calculateTotalCosts(pricedMaterials, laborItems, QSub(Q(86, 100), pct))
  IN  Estimate(pricedMaterials, TotalsWithFee(t, notes).totalCost, pct)

\* the row as router.get('/') and router.get('/:id') send it: an admin gets
\* it as stored, anyone else with every material line's pricePerUnit and
\* totalCost set to 0, and with no lines when material_costs is not an array
Sanitized(d, isAdmin) ==
  IF isAdmin THEN d
  ELSE LET lines == d.material_costs
       IN  [d EXCEPT !.material_costs =
              IF lines = Null THEN <<>>
              ELSE [i \in DOMAIN lines |->
                      [lines[i] EXCEPT !.pricePerUnit = QZero, !.totalCost = QZero]]]

\* ------------------------------------------------------------- actions

\* the estimate handleSubmit creates: its notes carry the financed flag
HandleSubmit ==
  /\ pc = "upload"
  /\ notes' = estimateNotes(jobNotes, financed)
  /\ pc' = "start"
  /\ UNCHANGED <<measurements, rules, materials, prices, pricedMaterials, laborRates,
                 laborItems, contributionX, totals, data, include2, include3,
                 meas, pitches1, pitches2, merged, jobNotes, financed, totalsWithFee,
                 financeTotal, page>>

\* materials = calculateMaterialQuantities(measurements, rules)
CalculateMaterialQuantities ==
  /\ pc = "start"
  /\ materials' = calculateMaterialQuantities(measurements, rules)
  /\ pc' = "quantities"
  /\ UNCHANGED <<measurements, rules, prices, pricedMaterials, laborRates,
                 laborItems, contributionX, totals, data, include2, include3,
                 meas, pitches1, pitches2, merged,
                 jobNotes, financed, notes, totalsWithFee,
                 financeTotal, page>>

\* pricedMaterials = applyMaterialPrices(materials, prices)
ApplyMaterialPrices ==
  /\ pc = "quantities"
  /\ pricedMaterials' = applyMaterialPrices(materials, prices)
  /\ pc' = "priced"
  /\ UNCHANGED <<measurements, rules, materials, prices, laborRates,
                 laborItems, contributionX, totals, data, include2, include3,
                 meas, pitches1, pitches2, merged,
                 jobNotes, financed, notes, totalsWithFee,
                 financeTotal, page>>

\* laborItems = calculateLaborCosts(measurements, laborRates)
CalculateLaborCosts ==
  /\ pc = "priced"
  /\ laborItems' = calculateLaborCosts(measurements, laborRates)
  /\ pc' = "labor"
  /\ UNCHANGED <<measurements, rules, materials, prices, pricedMaterials,
                 laborRates, contributionX, totals, data, include2, include3,
                 meas, pitches1, pitches2, merged,
                 jobNotes, financed, notes, totalsWithFee,
                 financeTotal, page>>

\* totals = calculateTotalCosts(pricedMaterials, laborItems, contributionX)
CalculateTotalCosts ==
  /\ pc = "labor"
  /\ totals' = calculateTotalCosts(pricedMaterials, laborItems, contributionX)
  /\ pc' = "done"
  /\ UNCHANGED <<measurements, rules, materials, prices, pricedMaterials,
                 laborRates, laborItems, contributionX, data, include2, include3,
                 meas, pitches1, pitches2, merged,
                 jobNotes, financed, notes, totalsWithFee,
                 financeTotal, page>>

\* totalsWithFee = isFinanced ? { ...totals, totalCost + 500 } : totals
ApplyFinancingFee ==
  /\ pc = "done"
  /\ totalsWithFee' = TotalsWithFee(totals, notes)
  /\ pc' = "fee"
  /\ UNCHANGED <<measurements, rules, materials, prices, pricedMaterials, laborRates,
                 laborItems, contributionX, totals, data, include2, include3,
                 meas, pitches1, pitches2, merged, jobNotes, financed, notes,
                 financeTotal, page>>

\* handleExportPDF: const financeTotal = (totalCosts.totalCost || 0) + 500,
\* totalCosts being the state set by setTotalCosts(totalsWithFee)
HandleExportPDF ==
  /\ pc = "fee"
  /\ financeTotal' = QAdd(OrZero(totalsWithFee.totalCost), QInt(500))
  /\ pc' = "pdf"
  /\ UNCHANGED <<measurements, rules, materials, prices, pricedMaterials, laborRates,
                 laborItems, contributionX, totals, data, include2, include3,
                 meas, pitches1, pitches2, merged, jobNotes, financed, notes,
                 totalsWithFee, page>>

\* meas = getStructure1Measurements(data)
GetStructure1Measurements ==
  /\ pc = "start"
  /\ meas' = getStructure1Measurements(data)
  /\ pc' = "structure1"
  /\ UNCHANGED <<measurements, rules, materials, prices, pricedMaterials,
                 laborRates, laborItems, contributionX, totals, data, include2,
                 include3, pitches1, pitches2, merged,
                 jobNotes, financed, notes, totalsWithFee,
                 financeTotal, page>>

\* meas = getCombinedMeasurements(data); the report is left as the one call
\* of mergePitchBreakdowns on the two structures' segments leaves it
GetCombinedMeasurements ==
  /\ pc = "start"
  /\ meas' = getCombinedMeasurements(data)
  /\ data' =
       LET s1 == getStructure1(data)
           s2 == getStructure2(data)
       IN  IF s1 = Null \/ s2 = Null THEN data
           ELSE LET after == InputsAfterMerge(s1.pitch_breakdown, s2.pitch_breakdown)
                IN  WithPitches(WithPitches(data, s2, after.pitches2), s1, after.pitches1)
  /\ pc' = "combined"
  /\ UNCHANGED <<measurements, rules, materials, prices, pricedMaterials,
                 laborRates, laborItems, contributionX, totals, include2,
                 include3, pitches1, pitches2, merged,
                 jobNotes, financed, notes, totalsWithFee,
                 financeTotal, page>>

\* meas = getSelectedMeasurements(data, include2, include3); the report is
\* left as the calls of mergePitchBreakdowns on the selected structures'
\* segments leave it
GetSelectedMeasurements ==
  /\ pc = "start"
  /\ meas' = getSelectedMeasurements(data, include2, include3)
  /\ data' =
       IF getStructure1(data) = Null THEN data
       ELSE LET structs == SelectedStructures(data, include2, include3) IN
            IF Len(structs) = 1 THEN data
            ELSE WithPitches(
                   AfterMergeAll(data, <<>>, Tail(structs)), structs[1],
                   InputsAfterMerge(structs[1].pitch_breakdown,
                                    MergeAll(<<>>, Tail(structs))).pitches1)
  /\ pc' = "selected"
  /\ UNCHANGED <<measurements, rules, materials, prices, pricedMaterials,
                 laborRates, laborItems, contributionX, totals, include2,
                 include3, pitches1, pitches2, merged,
                 jobNotes, financed, notes, totalsWithFee,
                 financeTotal, page>>

\* merged = mergePitchBreakdowns(pitches1, pitches2); the two lists are left
\* as the writes of the call leave them
MergePitchBreakdowns ==
  /\ pc = "start"
  /\ merged' = mergePitchBreakdowns(pitches1, pitches2)
  /\ pitches1' = InputsAfterMerge(pitches1, pitches2).pitches1
  /\ pitches2' = InputsAfterMerge(pitches1, pitches2).pitches2
  /\ pc' = "merged"
  /\ UNCHANGED <<measurements, rules, materials, prices, pricedMaterials,
                 laborRates, laborItems, contributionX, totals, data, include2,
                 include3, meas,
                 jobNotes, financed, notes, totalsWithFee,
                 financeTotal, page>>

\* router.post('/'): the body is inserted and the inserted row sent back.
\* The body is the one handleSubmit posts, without material lines, or one
\* that carries priced lines.
PostEstimate ==
  /\ stored = Null
  /\ \E body \in {Estimate(Null, Undef, Undef), Estimate(pricedMaterials, Undef, Undef)} :
       /\ stored' = body
       /\ response' = [route |-> "post", estimates |-> <<body>>]
  /\ UNCHANGED <<engine, role, puts, contributionPct>>

\* router.get('/'): the user's rows, sanitized by role
GetEstimates ==
  /\ response' =
       [route |-> "list",
        estimates |-> IF stored = Null THEN <<>>
                      ELSE <<Sanitized(stored, role = "admin")>>]
  /\ UNCHANGED <<engine, role, stored, puts, contributionPct>>

\* router.get('/:id'): the row, sanitized by role; an error without a row
GetEstimate ==
  /\ response' =
       [route |-> "get",
        estimates |-> IF stored = Null THEN <<>>
                      ELSE <<Sanitized(stored, role = "admin")>>]
  /\ UNCHANGED <<engine, role, stored, puts, contributionPct>>

\* handleContributionPctChange, then the effect on [..., contributionPct]:
\* calculateCosts computes the totals for the new position and stops at
\* await supabase.auth.getSession() with the body of its save
HandleContributionPctChange ==
  /\ stored # Null
  /\ Cardinality(puts) < MaxInFlight
  /\ \E newPct \in SliderPositions \ {contributionPct} :
       /\ contributionPct' = newPct
       /\ puts' = puts \cup {[body |-> updatedEstimate(newPct), at |-> "session"]}
  /\ UNCHANGED <<engine, role, stored, response>>

\* calculateCosts resumes with the session and sends its PUT
SendPut ==
  /\ \E p \in puts :
       /\ p.at = "session"
       /\ puts' = (puts \ {p}) \cup {[p EXCEPT !.at = "sent"]}
  /\ UNCHANGED <<engine, role, stored, response, contributionPct>>

\* router.put('/:id'): the row is updated with the body of a PUT that has
\* arrived, whichever it is, and the updated row sent back as stored; the
\* body of calculateCosts carries every column of the model
PutEstimate ==
  /\ \E p \in puts :
       /\ p.at = "sent"
       /\ puts' = puts \ {p}
       /\ stored' = p.body
       /\ response' = [route |-> "put", estimates |-> <<p.body>>]
  /\ UNCHANGED <<engine, role, contributionPct>>

\* --------------------------------------------------- specifications

InitQuantities ==
  /\ pc = "start"
  /\ measurements \in QtyMeasurements
  /\ rules \in RuleLists
  /\ materials = <<>>
  /\ prices = <<>>
  /\ pricedMaterials = <<>>
  /\ laborRates = <<>>
  /\ laborItems = <<>>
  /\ contributionX = QZero
  /\ totals = NoTotals
  /\ IdleNormalizer
  /\ IdlePitches
  /\ IdleFinancing
  /\ IdlePage

\* the quantity rule engine on every measurement set and rule list
SpecQuantities == InitQuantities /\ [][CalculateMaterialQuantities]_vars

InitPrices ==
  /\ pc = "quantities"
  /\ measurements = NoMeasurements
  /\ rules = <<>>
  /\ materials \in ItemLists
  /\ prices \in Catalogs
  /\ pricedMaterials = <<>>
  /\ laborRates = <<>>
  /\ laborItems = <<>>
  /\ contributionX = QZero
  /\ totals = NoTotals
  /\ IdleNormalizer
  /\ IdlePitches
  /\ IdleFinancing
  /\ IdlePage

\* the price resolver on every list of line items and every catalog
SpecPrices == InitPrices /\ [][ApplyMaterialPrices]_vars

\* one unpriced line against a sheet of two rolls of its category: another
\* product first, then the line's product under any spelling of its name
InitNames ==
  /\ pc = "quantities"
  /\ measurements = NoMeasurements
  /\ rules = <<>>
  /\ materials \in
       {<<Item("r5", name, Units.RL, Categories.IceWater, QInt(2), QZero)>> :
          name \in NameVariants}
  /\ prices \in
       {<<Price(OtherNames.Felt, QInt(40), Units.RL, Categories.IceWater),
          Price(name, Q(473, 5), Units.RL, Categories.IceWater)>> :
          name \in NameVariants}
  /\ pricedMaterials = <<>>
  /\ laborRates = <<>>
  /\ laborItems = <<>>
  /\ contributionX = QZero
  /\ totals = NoTotals
  /\ IdleNormalizer
  /\ IdlePitches
  /\ IdleFinancing
  /\ IdlePage

\* the price resolver on every pair of spellings of one name
SpecNames == InitNames /\ [][ApplyMaterialPrices]_vars

InitLabor ==
  /\ pc = "priced"
  /\ measurements \in LaborMeasurements
  /\ rules = <<>>
  /\ materials = <<>>
  /\ prices = <<>>
  /\ pricedMaterials = <<>>
  /\ laborRates \in RateLists
  /\ laborItems = <<>>
  /\ contributionX = QZero
  /\ totals = NoTotals
  /\ IdleNormalizer
  /\ IdlePitches
  /\ IdleFinancing
  /\ IdlePage

\* the labor cost calculator on every measurement set and rate catalog
SpecLabor == InitLabor /\ [][CalculateLaborCosts]_vars

InitTotals ==
  /\ pc = "labor"
  /\ measurements = NoMeasurements
  /\ rules = <<>>
  /\ materials = <<>>
  /\ prices = <<>>
  /\ pricedMaterials \in SeqsUpTo(CostedMaterials, MaxItems)
  /\ laborRates = <<>>
  /\ laborItems \in SeqsUpTo(CostedLabor, MaxItems)
  /\ contributionX \in Contributions
  /\ totals = NoTotals
  /\ IdleNormalizer
  /\ IdlePitches
  /\ IdleFinancing
  /\ IdlePage

\* the total cost aggregator on every pair of line lists and every fraction
SpecTotals == InitTotals /\ [][CalculateTotalCosts]_vars

InitNormalizer ==
  /\ pc = "start"
  /\ IdleCalculations
  /\ data \in Reports
  /\ include2 \in BOOLEAN
  /\ include3 \in BOOLEAN
  /\ meas = NoMeas
  /\ IdlePitches
  /\ IdleFinancing
  /\ IdlePage

NextNormalizer ==
  \/ GetStructure1Measurements
  \/ GetCombinedMeasurements
  \/ GetSelectedMeasurements

\* the measurement normalizer on every report and structure selection
SpecNormalizer == InitNormalizer /\ [][NextNormalizer]_vars

InitPitches ==
  /\ pc = "start"
  /\ IdleCalculations
  /\ IdleNormalizer
  /\ pitches1 \in PitchLists
  /\ pitches2 \in PitchLists
  /\ merged = <<>>
  /\ IdleFinancing
  /\ IdlePage

\* the pitch merge on every pair of pitch-segment lists
SpecPitches == InitPitches /\ [][MergePitchBreakdowns]_vars

InitEstimate ==
  /\ pc = "upload"
  /\ measurements \in EstimateMeasurements
  /\ rules \in {OnePerFormula, ScenarioRules, SeededRules}
  /\ materials = <<>>
  /\ prices \in {<<>>, <<Prices.Underlayment, Prices.SealantTube, Prices.IceWater>>}
  /\ pricedMaterials = <<>>
  /\ laborRates \in {<<>>, <<Rates.Standard>>, SeededRates}
  /\ laborItems = <<>>
  /\ contributionX \in {Undef, Q(40, 100)}
  /\ totals = NoTotals
  /\ IdleNormalizer
  /\ IdlePitches
  /\ jobNotes \in JobNotes
  /\ financed \in BOOLEAN
  /\ notes = <<>>
  /\ totalsWithFee = NoTotals
  /\ financeTotal = QZero
  /\ IdlePage

Next ==
  \/ HandleSubmit
  \/ CalculateMaterialQuantities
  \/ ApplyMaterialPrices
  \/ CalculateLaborCosts
  \/ CalculateTotalCosts
  \/ ApplyFinancingFee
  \/ HandleExportPDF

\* a full estimate: the job form is submitted, then the four calculators run
\* in the order calculateCosts calls them, then the financing fee is applied
\* and the estimate is exported with its financing plans
Spec == InitEstimate /\ [][Next]_vars

InitEstimates ==
  /\ pc = "page"
  /\ measurements = NoMeasurements
  /\ rules = <<>>
  /\ materials = <<>>
  /\ prices = <<>>
  /\ pricedMaterials \in {<<m>> : m \in CostedMaterials}
  /\ laborRates = <<>>
  /\ laborItems \in {<<l>> : l \in CostedLabor}
  /\ contributionX = QZero
  /\ totals = NoTotals
  /\ IdleNormalizer
  /\ IdlePitches
  /\ IdleFinancing
  /\ role \in {"admin", "estimator"}
  /\ stored = Null
  /\ puts = {}
  /\ response = Null
  /\ contributionPct = Q(40, 100)

NextEstimates ==
  \/ PostEstimate
  \/ GetEstimates
  \/ GetEstimate
  \/ HandleContributionPctChange
  \/ SendPut
  \/ PutEstimate

\* the estimates API under a user of either role, and the estimate page
\* saving the estimate on every change of the contribution slider
SpecEstimates == InitEstimates /\ [][NextEstimates]_vars

\* ---------------------------------------------------------------- claims

RuleOf(id) == CHOOSE r \in Range(rules) : r.id = id

\* the raw value of a formula, before rounding
RawValue(f, m) ==
  LET es == MaterialEffectiveSquares(m) IN
  CASE f = "roof_area_sq / 3" -> QMul(es, QInt(3))
    [] f = "hip_ridge_lf / 30" -> QDiv(QAdd(m.hipsLength, m.ridgesLength), QInt(30))
    [] f = "ridge_lf / 4" -> QDiv(m.ridgesLength, QInt(4))
    [] f = "roof_area_sq / 10" -> QDiv(es, QInt(10))
    [] f = "(eaves_lf + rakes_lf) / 100" -> QDiv(QAdd(m.eavesLength, m.rakesLength), QInt(100))
    [] f = "(eaves_lf + rakes_lf) / 10" ->
         QAdd(QDiv(QAdd(m.eavesLength, m.rakesLength), QInt(10)), QInt(5))
    [] f = "valleys_lf / 66" -> QDiv(m.valleysLength, QInt(66))
    [] f = "roof_area_sq / 15" -> QDiv(es, QInt(15))
    [] f = "low_pitch_area_sq" -> m.lowPitchArea
    [] f = "low_pitch_area_sq / 2" -> QDiv(m.lowPitchArea, QInt(2))

\* k is the least integer not below raw
IsCeilingOf(k, raw) ==
  /\ IsInteger(k)
  /\ QLe(raw, k)
  /\ QLt(QSub(k, QInt(1)), raw)

\* C1: every line emitted by calculateMaterialQuantities comes from a rule
\* with a known formula and its quantity is a non-negative integer, the
\* ceiling of the formula's raw value on the measurement set.
C1_QuantityIsCeiling ==
  pc = "quantities" =>
    \A i \in DOMAIN materials :
      LET f == RuleOf(materials[i].id).quantityFormula IN
      /\ f \in KnownFormulas
      /\ materials[i].quantity.n >= 0
      /\ IsCeilingOf(materials[i].quantity, RawValue(f, measurements))

\* C1 witness: two lines were emitted, one of them rounded up from a
\* fractional raw value.
C1_Witness ==
  /\ pc = "quantities"
  /\ Len(materials) = 2
  /\ \E i \in DOMAIN materials :
       ~IsInteger(RawValue(RuleOf(materials[i].id).quantityFormula, measurements))

\* C2: a rule with the ridge-vent formula is in the output iff the ridge-vent
\* flag is true and ridge length > 0, whatever its material name.
C2_RidgeVentGating ==
  pc = "quantities" =>
    \A j \in DOMAIN rules :
      rules[j].quantityFormula = "ridge_lf / 4" =>
        ((\E i \in DOMAIN materials : materials[i].id = rules[j].id)
           <=> (measurements.hasRidgeVent /\ QLt(QZero, measurements.ridgesLength)))

\* the line carries no price of its own and is resolved against the catalog
Unpriced(material) == ~QLt(QZero, material.pricePerUnit)

\* no catalog entry matches the line: normalized names differ, neither
\* contains the other, and category and unit do not both match
NoEntryMatches(material) ==
  \A k \in DOMAIN prices :
    /\ norm(prices[k].itemName) # norm(material.itemName)
    /\ ~includes(norm(prices[k].itemName), norm(material.itemName))
    /\ ~includes(norm(material.itemName), norm(prices[k].itemName))
    /\ ~(/\ toLowerCase(prices[k].category) = toLowerCase(material.category)
          /\ normUnit(prices[k].unitOfMeasure) = normUnit(material.unitOfMeasure))

\* C3: an unpriced line that no catalog entry matches resolves to unit price
\* 0 and cost 0, for any catalog, empty or not.
C3_UnmatchedIsZero ==
  pc = "priced" =>
    \A i \in DOMAIN materials :
      (Unpriced(materials[i]) /\ NoEntryMatches(materials[i])) =>
        /\ pricedMaterials[i].pricePerUnit = QZero
        /\ pricedMaterials[i].totalCost = QZero

\* the catalog positions whose normalized name equals the line's
ExactMatches(material) ==
  {k \in DOMAIN prices : norm(prices[k].itemName) = norm(material.itemName)}

\* C4: a line resolved against a catalog that holds an entry with an equal
\* normalized name gets the price of the first such entry, wherever the
\* lower-scoring entries stand.
C4_FirstExactMatchWins ==
  pc = "priced" =>
    \A i \in DOMAIN materials :
      (Unpriced(materials[i]) /\ ExactMatches(materials[i]) # {}) =>
        LET first == CHOOSE k \in ExactMatches(materials[i]) :
                       \A j \in ExactMatches(materials[i]) : k <= j
        IN  /\ pricedMaterials[i].pricePerUnit = prices[first].pricePerUnit
            /\ pricedMaterials[i].totalCost =
                 QMul(materials[i].quantity, prices[first].pricePerUnit)

\* C4 witness: a lower-scoring entry stands first in the catalog, followed by
\* two entries of equal normalized name and different prices.
C4_Witness ==
  /\ pc = "priced"
  /\ Len(prices) = 3
  /\ \E i \in DOMAIN materials :
       /\ Unpriced(materials[i])
       /\ ExactMatches(materials[i]) = {2, 3}
       /\ Score(materials[i], prices[1]) \in {1, 2}
       /\ prices[2].pricePerUnit # prices[3].pricePerUnit

LinesOfType(type) == {i \in DOMAIN laborItems : laborItems[i].conditionType = type}

\* k = floor(x / 30): the integer k with 30 k <= x < 30 (k + 1)
IsFloorOfThirtieth(k, x) ==
  /\ IsInteger(k)
  /\ QLe(QMul(QInt(30), k), x)
  /\ QLt(x, QMul(QInt(30), QAdd(k, QInt(1))))

\* C5: calculateLaborCosts emits exactly one 'Dump Fee' line, of quantity 1,
\* and an excess-weight line iff floor(effectiveSquares / 30) > 0, its
\* quantity being floor(effectiveSquares / 30): none at 29, 1 at 30, 2 at 61.
C5_DisposalTiers ==
  pc = "labor" =>
    LET es == LaborEffectiveSquares(measurements)
        base == LinesOfType("Dump Fee")
        extra == LinesOfType("Excess Weight Dump Fee")
    IN  /\ Cardinality(base) = 1
        /\ \A i \in base : laborItems[i].quantity = QInt(1)
        /\ Cardinality(extra) <= 1
        /\ (extra = {}) <=> QLt(es, QInt(30))
        /\ \A i \in extra : IsFloorOfThirtieth(laborItems[i].quantity, es)
        /\ (es = QInt(29) => extra = {})
        /\ (es = QInt(30) => \E i \in extra : laborItems[i].quantity = QInt(1))
        /\ (es = QInt(61) => \E i \in extra : laborItems[i].quantity = QInt(2))

\* C5 witness: at 61 effective squares the base fee is followed by an
\* excess-weight line of quantity 2.
C5_Witness ==
  /\ pc = "labor"
  /\ LaborEffectiveSquares(measurements) = QInt(61)
  /\ \E i \in LinesOfType("Excess Weight Dump Fee") : laborItems[i].quantity = QInt(2)

\* the contribution fraction the aggregator is called with
GivenContribution == IF contributionX = Undef THEN Q(46, 100) ELSE contributionX

\* the fraction brought into [0.26, 0.51]
ClampedContribution ==
  IF QLt(GivenContribution, Q(26, 100)) THEN Q(26, 100)
  ELSE IF QLt(Q(51, 100), GivenContribution) THEN Q(51, 100)
  ELSE GivenContribution

\* C6: calculateTotalCosts clamps the contribution fraction x to [0.26, 0.51]
\* and returns totalCost = subtotal / x, profit = totalCost - subtotal and
\* profitMargin = profit / totalCost (where totalCost is not 0); subtotal 1000
\* at x = 0.40 gives 2500, 1500 and 0.60; a fraction outside the range is
\* clamped and a summary is always returned.
C6_MarginInversion ==
  pc = "done" =>
    LET x == ClampedContribution IN
    /\ QMul(totals.totalCost, x) = totals.subtotal
    /\ totals.profit = QSub(totals.totalCost, totals.subtotal)
    /\ (totals.totalCost # QZero =>
          QMul(totals.profitMargin, totals.totalCost) = totals.profit)
    /\ ((totals.subtotal = QInt(1000) /\ x = Q(40, 100)) =>
          /\ totals.totalCost = QInt(2500)
          /\ totals.profit = QInt(1500)
          /\ totals.profitMargin = Q(60, 100))

\* C6 witness: subtotal 1000 is inverted at the fraction 0.40.
C6_Witness ==
  /\ pc = "done"
  /\ contributionX = Q(40, 100)
  /\ totals.subtotal = QInt(1000)
  /\ totals.totalCost = QInt(2500)

\* a structure's own suggested squares: its waste figure, or the figure
\* derived from its area and predominant pitch when it carries none
OwnSuggestedSquares(s) ==
  IF s.suggested_waste # Null /\ s.suggested_waste.squares.n > 0
  THEN s.suggested_waste.squares
  ELSE LET base == QDiv(s.total_area_sqft, QInt(100))
           waste == IF QLt(QZero, base) /\ QLt(base, QInt(2)) THEN 94
                    ELSE IF steepVal(trim(s.predominant_pitch)) >= 10 THEN 18
                    ELSE 12
       IN  QMul(base, Q(100 + waste, 100))

\* the structures a merged measurement set was built from
IncludedStructures ==
  IF pc = "combined" THEN <<getStructure1(data), getStructure2(data)>>
  ELSE SelectedStructures(data, include2, include3)

\* the measurement set merges two structures or more
IsMergedSet ==
  \/ pc = "combined" /\ getStructure1(data) # Null /\ getStructure2(data) # Null
  \/ /\ pc = "selected"
     /\ getStructure1(data) # Null
     /\ Len(SelectedStructures(data, include2, include3)) > 1

\* C7: the suggested squares of a merged measurement set are the sum, over
\* the included structures, of the ceiling of each structure's own suggested
\* squares.
C7_SumOfCeilings ==
  IsMergedSet =>
    meas.suggested_squares =
      SumSeq([i \in DOMAIN IncludedStructures |->
                QCeil(OwnSuggestedSquares(IncludedStructures[i]))])

\* the area a pitch-segment list holds under a label
LabelArea(segments, label) ==
  SumSeq([i \in DOMAIN segments |->
            IF segments[i].pitch = label THEN segments[i].area_sqft ELSE QZero])

\* C8: merging A with B and B with A give the same area for every pitch
\* label, the sum of the areas of all segments of A and of B under the label.
C8_MergeCommutes ==
  pc = "merged" =>
    \A i \in DOMAIN (pitches1 \o pitches2) :
      LET label == (pitches1 \o pitches2)[i].pitch IN
      /\ LabelArea(merged, label) =
           LabelArea(mergePitchBreakdowns(pitches2, pitches1), label)
      /\ LabelArea(merged, label) =
           QAdd(LabelArea(pitches1, label), LabelArea(pitches2, label))

\* the measurements of the scenario: 20 effective squares, 150 feet of eaves
\* and rakes, 60 feet of ridges and hips, no ridge vent, trailer access, one
\* story, no second layer, third story, hand load or steep pitch segment
IsScenario ==
  /\ MaterialEffectiveSquares(measurements) = QInt(20)
  /\ LaborEffectiveSquares(measurements) = QInt(20)
  /\ QAdd(measurements.eavesLength, measurements.rakesLength) = QInt(150)
  /\ QAdd(measurements.ridgesLength, measurements.hipsLength) = QInt(60)
  /\ ~measurements.hasRidgeVent
  /\ measurements.hasTrailerAccess
  /\ measurements.stories = QInt(1)
  /\ ~measurements.hasSecondLayer
  /\ ~measurements.thirdStory
  /\ ~measurements.handLoadMaterials
  /\ PitchLines(SeededRates, measurements.pitchBreakdown) = <<>>

\* the materials and quantities of lines, in order
Ordered(lines) == [i \in DOMAIN lines |-> <<lines[i].itemName, lines[i].quantity>>]

\* the condition types and quantities of labor lines, in order
OrderedLabor(lines) == [i \in DOMAIN lines |-> <<lines[i].conditionType, lines[i].quantity>>]

SevenLines ==
  << <<Names.Shingles, QInt(60)>>, <<Names.HipRidge, QInt(2)>>, <<Names.Underlayment, QInt(2)>>,
     <<Names.Starter, QInt(2)>>, <<Names.DripEdge, QInt(20)>>, <<Names.Nails, QInt(2)>>,
     <<Names.Caulk, QInt(2)>> >>

TwoLaborLines == << <<"Standard Install", QInt(20)>>, <<"Dump Fee", QInt(1)>> >>

\* C10: in the scenario, with a catalog of one rule per formula,
\* the material lines are the seven of the list and the labor lines are
\* standard install (20) and the base disposal fee (1).
C10_ScenarioOnePerFormula ==
  (pc = "done" /\ IsScenario /\ rules = OnePerFormula) =>
    /\ Ordered(materials) = SevenLines
    /\ OrderedLabor(laborItems) = TwoLaborLines

\* the condition types whose gate holds on the measurement set
GatedTypes ==
  {"Standard Install"}
    \cup (IF measurements.thirdStory THEN {"Third Story"} ELSE {})
    \cup (IF ~measurements.thirdStory /\ QLe(QInt(2), measurements.stories)
          THEN {"Second Story"} ELSE {})
    \cup {pitchUpcharges[u].type : u \in
            {v \in DOMAIN pitchUpcharges :
               \E k \in DOMAIN measurements.pitchBreakdown :
                 /\ startsWith(measurements.pitchBreakdown[k].pitch, pitchUpcharges[v].label)
                 /\ \A w \in 1..(v - 1) :
                      ~startsWith(measurements.pitchBreakdown[k].pitch, pitchUpcharges[w].label)}}
    \cup (IF ~measurements.hasTrailerAccess THEN {"No Trailer Access"} ELSE {})
    \cup (IF measurements.hasSecondLayer THEN {"2nd Layer"} ELSE {})
    \cup (IF measurements.hasRidgeVent /\ QLt(QZero, measurements.ridgesLength)
          THEN {"Ridge Vent Install"} ELSE {})
    \cup (IF measurements.handLoadMaterials THEN {"Hand Load Materials"} ELSE {})

\* C11: for every measurement set and every labor rate catalog, the empty one
\* included, the output of calculateLaborCosts holds a 'Standard Install' line
\* whose quantity is effectiveSquares.
C11_StandardInstallAlways ==
  pc = "labor" =>
    \E i \in LinesOfType("Standard Install") :
      laborItems[i].quantity = LaborEffectiveSquares(measurements)

\* C12: every labor condition whose gate holds has its line in the output of
\* calculateLaborCosts, also when the rate catalog has no entry of that type,
\* the line then being priced at the engine's default rate.
C12_DefaultRateFallback ==
  pc = "labor" =>
    \A type \in GatedTypes :
      /\ LinesOfType(type) # {}
      /\ Find(laborRates, type) = 0 =>
           \A i \in LinesOfType(type) :
             IF type = "Ridge Vent Install"
             THEN laborItems[i].ratePerLinearFoot = Defaults(type).plf
             ELSE laborItems[i].ratePerSquare = Defaults(type).ps

\* C13: the third-story and the second-story upcharge never both appear; the
\* third-story upcharge is emitted when the third-story flag is set, and
\* otherwise the second-story upcharge is emitted when the story count is at
\* least 2.
C13_StoryUpcharges ==
  pc = "labor" =>
    /\ ~(LinesOfType("Third Story") # {} /\ LinesOfType("Second Story") # {})
    /\ measurements.thirdStory => LinesOfType("Third Story") # {}
    /\ (~measurements.thirdStory /\ QLe(QInt(2), measurements.stories)) =>
         LinesOfType("Second Story") # {}

\* the rule's formula is not one of the switch, or its value rounds to no
\* positive quantity
YieldsNothing(rule) ==
  \/ rule.quantityFormula \notin KnownFormulas
  \/ QLe(QCeil(RawValue(rule.quantityFormula, measurements)), QZero)

\* C14: a rule whose formula identifier is not in the known set, or whose
\* computed quantity is <= 0, has no line in the output of
\* calculateMaterialQuantities, and every emitted line has an integer
\* quantity >= 1.
C14_NoZeroQuantityLine ==
  pc = "quantities" =>
    /\ \A j \in DOMAIN rules :
         YieldsNothing(rules[j]) => \A i \in DOMAIN materials : materials[i].id # rules[j].id
    /\ \A i \in DOMAIN materials :
         IsInteger(materials[i].quantity) /\ materials[i].quantity.n >= 1

\* C14 witness: a rule of unknown formula and a rule whose value is negative
\* were both evaluated and left no line.
C14_Witness ==
  /\ pc = "quantities"
  /\ materials = <<>>
  /\ \E j \in DOMAIN rules : rules[j].quantityFormula \notin KnownFormulas
  /\ \E j \in DOMAIN rules :
       /\ rules[j].quantityFormula \in KnownFormulas
       /\ QLt(RawValue(rules[j].quantityFormula, measurements), QZero)

\* a measurement with a negative value replaced by 0
ZeroIfNegative(x) == IF x # Undef /\ x.n < 0 THEN QZero ELSE x

\* the measurement set with every negative length, low-pitch area and square
\* count replaced by 0
WithNegativesZeroed(m) ==
  [m EXCEPT !.roofArea = ZeroIfNegative(@),
            !.roofAreaRounded = ZeroIfNegative(@),
            !.eavesLength = ZeroIfNegative(@),
            !.rakesLength = ZeroIfNegative(@),
            !.valleysLength = ZeroIfNegative(@),
            !.hipsLength = ZeroIfNegative(@),
            !.ridgesLength = ZeroIfNegative(@),
            !.lowPitchArea = ZeroIfNegative(@)]

\* C15: on a measurement set with a negative linear length, low-pitch area or
\* square count, calculateMaterialQuantities and calculateLaborCosts return
\* the lines and quantities they return for the same set with that field
\* replaced by 0.
C15_NegativesClamped ==
  /\ pc = "quantities" =>
       materials = calculateMaterialQuantities(WithNegativesZeroed(measurements), rules)
  /\ pc = "labor" =>
       laborItems = calculateLaborCosts(WithNegativesZeroed(measurements), laborRates)

\* C18: on an estimate flagged as financed the fee of 500 is added to
\* totalCost after the margin inversion, every other total being that of the
\* unfinanced computation; on an estimate not flagged, totalCost is the
\* margin-inverted value with no fee.
C18_FinancingFee ==
  pc = "fee" =>
    /\ [totalsWithFee EXCEPT !.totalCost = totals.totalCost] = totals
    /\ financed => totalsWithFee.totalCost = QAdd(totals.totalCost, QInt(500))
    /\ ~financed => totalsWithFee.totalCost = totals.totalCost

\* C16 as stated: called with a contribution fraction of zero,
\* calculateTotalCosts returns totalCost = subtotal and profit 0, and no
\* non-finite number.
C16_ZeroFractionFallback ==
  (pc = "done" /\ contributionX = QZero) =>
    /\ totals.totalCost = totals.subtotal
    /\ totals.profit = QZero
    /\ totals.totalCost.d # 0

\* C16: called with a contribution fraction of zero, calculateTotalCosts
\* clamps the fraction to 0.26 and returns totalCost = subtotal / 0.26 and
\* profit = totalCost - subtotal, all of them finite.
C16_ZeroFractionClamped ==
  (pc = "done" /\ contributionX = QZero) =>
    /\ QMul(totals.totalCost, Q(26, 100)) = totals.subtotal
    /\ totals.profit = QSub(totals.totalCost, totals.subtotal)
    /\ totals.totalCost.d # 0
    /\ totals.profit.d # 0
    /\ totals.profitMargin.d # 0

\* C16 witness: a subtotal of 1000 was inverted at the fraction zero and gave
\* a total above the subtotal.
C16_Witness ==
  /\ pc = "done"
  /\ contributionX = QZero
  /\ totals.subtotal = QInt(1000)
  /\ QLt(totals.subtotal, totals.totalCost)

\* C17: a line that already carries a unit price keeps it whatever the
\* catalog holds; every output line, pre-priced or resolved, has totalCost =
\* quantity x pricePerUnit and the id, name, unit, category and quantity of
\* the input line at the same position, and the list keeps its length.
C17_PricedLinesPassThrough ==
  pc = "priced" =>
    /\ Len(pricedMaterials) = Len(materials)
    /\ \A i \in DOMAIN materials :
         /\ pricedMaterials[i].id = materials[i].id
         /\ pricedMaterials[i].itemName = materials[i].itemName
         /\ pricedMaterials[i].unitOfMeasure = materials[i].unitOfMeasure
         /\ pricedMaterials[i].category = materials[i].category
         /\ pricedMaterials[i].quantity = materials[i].quantity
         /\ pricedMaterials[i].totalCost =
              QMul(pricedMaterials[i].quantity, pricedMaterials[i].pricePerUnit)
         /\ ~Unpriced(materials[i]) =>
              pricedMaterials[i].pricePerUnit = materials[i].pricePerUnit

\* C17 witness: a line priced at 12.50 passed a catalog whose entry of the
\* same name asks another price, beside a line that was resolved.
C17_Witness ==
  /\ pc = "priced"
  /\ Len(materials) = 2
  /\ \E i \in DOMAIN materials :
       /\ ~Unpriced(materials[i])
       /\ \E k \in ExactMatches(materials[i]) :
            prices[k].pricePerUnit # materials[i].pricePerUnit
       /\ pricedMaterials[i].totalCost = QInt(25)
  /\ \E i \in DOMAIN materials :
       Unpriced(materials[i]) /\ QLt(QZero, pricedMaterials[i].pricePerUnit)

\* the extended costs of the first k lines, added up
RECURSIVE CostOfFirst(_, _)
CostOfFirst(lines, k) ==
  IF k = 0 THEN QZero ELSE QAdd(CostOfFirst(lines, k - 1), lines[k].totalCost)

\* C19: calculateTotalCosts returns totalMaterialCost = the sum of the
\* material extended costs, totalLaborCost = the sum of the labor extended
\* costs, materialTax = 8% of totalMaterialCost (labor untaxed) and subtotal =
\* totalMaterialCost + materialTax + totalLaborCost.
C19_SumsTaxSubtotal ==
  pc = "done" =>
    /\ totals.totalMaterialCost = CostOfFirst(pricedMaterials, Len(pricedMaterials))
    /\ totals.totalLaborCost = CostOfFirst(laborItems, Len(laborItems))
    /\ QMul(totals.materialTax, QInt(100)) = QMul(totals.totalMaterialCost, QInt(8))
    /\ totals.subtotal =
         QAdd(QAdd(totals.totalMaterialCost, totals.materialTax), totals.totalLaborCost)

\* C19 witness: two material lines of 500 and 12.50 and two labor lines of
\* 950 and 450 gave material 512.50, tax 41, labor 1400 and subtotal 1953.50.
C19_Witness ==
  /\ pc = "done"
  /\ Len(pricedMaterials) = 2
  /\ Len(laborItems) = 2
  /\ totals.totalMaterialCost = Q(1025, 2)
  /\ totals.materialTax = QInt(41)
  /\ totals.totalLaborCost = QInt(1400)
  /\ totals.subtotal = Q(3907, 2)

\* C20: the effectiveSquares of calculateMaterialQuantities and that of
\* calculateLaborCosts are the same value, an integer never below 0: the
\* ceiling of roofAreaRounded when present, otherwise of roofArea; the
\* standard-install line carries it as its quantity.
C20_SameEffectiveSquares ==
  pc = "labor" =>
    LET es == LaborEffectiveSquares(measurements)
        given == IF measurements.roofAreaRounded # Undef
                 THEN measurements.roofAreaRounded ELSE measurements.roofArea
    IN  /\ es = MaterialEffectiveSquares(measurements)
        /\ IsInteger(es)
        /\ es.n >= 0
        /\ QLt(QZero, given) => IsCeilingOf(es, given)
        /\ \A i \in LinesOfType("Standard Install") : laborItems[i].quantity = es

\* the structures a measurement set of the normalizer was built from
StructuresInOutput ==
  IF pc = "selected" THEN SelectedStructures(data, include2, include3)
  ELSE IF pc = "combined" /\ getStructure2(data) # Null
       THEN <<getStructure1(data), getStructure2(data)>>
  ELSE <<getStructure1(data)>>

\* the structure carries no pre-computed suggested-waste figure
LacksWasteFigure(s) == s.suggested_waste = Null \/ s.suggested_waste.squares.n <= 0

\* C21: when a structure of the normalizer's output carries no suggested-waste
\* figure, alone or merged with others, the suggested squares of the output
\* count it with the figure derived from its area and predominant pitch
\* (each structure's figure taken as it is, or rounded up as the merge does).
C21_DerivedWhenNoFigure ==
  (/\ pc \in {"structure1", "combined", "selected"}
   /\ getStructure1(data) # Null
   /\ \E i \in DOMAIN StructuresInOutput : LacksWasteFigure(StructuresInOutput[i]))
  => meas.suggested_squares \in
       {SumSeq([i \in DOMAIN StructuresInOutput |->
                  OwnSuggestedSquares(StructuresInOutput[i])]),
        SumSeq([i \in DOMAIN StructuresInOutput |->
                  QCeil(OwnSuggestedSquares(StructuresInOutput[i]))])}

\* the steep-pitch bucket of a pitch label: the index in pitchUpcharges of the
\* first prefix the label starts with, 0 when it starts with none
BucketOf(label) ==
  LET hits == {u \in DOMAIN pitchUpcharges : startsWith(label, pitchUpcharges[u].label)}
  IN  IF hits = {} THEN 0 ELSE CHOOSE u \in hits : \A v \in hits : u <= v

\* the pitch segments of the measurement set that fall in a bucket, in order
SteepSegments ==
  SelectSeq(measurements.pitchBreakdown, LAMBDA part : BucketOf(part.pitch) # 0)

\* the steep-pitch lines of the output, in order
SteepLines ==
  SelectSeq(laborItems,
            LAMBDA line : \E u \in DOMAIN pitchUpcharges :
                            line.conditionType = pitchUpcharges[u].type)

\* C22: calculateLaborCosts emits one line per pitch segment whose label starts
\* with a steep-pitch bucket prefix and none for any other segment; the line's
\* quantity is the segment's squares (a negative figure counting as 0) and its
\* rate and cost use the rate the supplied catalog configures for the bucket.
C22_SteepPitchLines ==
  pc = "labor" =>
    /\ Len(SteepLines) = Len(SteepSegments)
    /\ \A k \in DOMAIN SteepSegments :
         k \in DOMAIN SteepLines =>
           LET type == pitchUpcharges[BucketOf(SteepSegments[k].pitch)].type
               quantity == QMax(QZero, SteepSegments[k].squares)
               configured == Find(laborRates, type)
           IN  /\ SteepLines[k].conditionType = type
               /\ SteepLines[k].quantity = quantity
               /\ configured # 0 =>
                    /\ SteepLines[k].ratePerSquare = laborRates[configured].ratePerSquare
                    /\ SteepLines[k].totalCost =
                         QMul(quantity, laborRates[configured].ratePerSquare)

\* C22 where the catalog configures every bucket of the breakdown
C22_ConfiguredBuckets ==
  (pc = "labor" /\ \A k \in DOMAIN SteepSegments :
      Find(laborRates, pitchUpcharges[BucketOf(SteepSegments[k].pitch)].type) # 0)
  => C22_SteepPitchLines

\* a name without the differences the price resolver is to ignore: letter
\* case, trademark and registration glyphs, periods, commas, quotation marks,
\* '&' for 'and', and runs of whitespace
RECURSIVE SingleSpaced(_)
SingleSpaced(s) ==
  IF Len(s) < 2 THEN s
  ELSE IF IsSpace(s[1]) /\ IsSpace(s[2]) THEN SingleSpaced(Tail(s))
  ELSE <<s[1]>> \o SingleSpaced(Tail(s))

IgnoringSpelling(s) ==
  LET lower == toLowerCase(s)
      bare == SelectSeq(lower, LAMBDA c : c \notin {"TM", "REG", ".", ",", "\"", "'"})
      spelled == SpellAmpersand(bare)
  IN  trim(SingleSpaced(spelled))

\* C23: a line item and a price-sheet entry whose names differ only in letter
\* case, trademark or registration glyphs, periods, commas, quotation marks,
\* '&' versus 'and', or runs of whitespace normalize to the same string and
\* score 3, so the line takes that entry's price over an earlier entry that
\* shares only its category and unit.
C23_SpellingIgnored ==
  pc = "priced" =>
    \A i \in DOMAIN materials : \A k \in DOMAIN prices :
      IgnoringSpelling(materials[i].itemName) = IgnoringSpelling(prices[k].itemName) =>
        /\ norm(materials[i].itemName) = norm(prices[k].itemName)
        /\ Score(materials[i], prices[k]) = 3
        /\ pricedMaterials[i].pricePerUnit = prices[k].pricePerUnit

DistinctSelected ==
  LET structs == SelectedStructures(data, include2, include3)
  IN  SelectSeq([i \in DOMAIN structs |-> [at |-> i, s |-> structs[i]]],
                LAMBDA e : \A j \in 1..(e.at - 1) : structs[j] # e.s)

\* C25: the total area and every linear measurement returned by
\* getSelectedMeasurements are the sums over the set of included structures
\* (structure 1, and structures 2 and 3 when selected and present), each
\* distinct structure counted once.
C25_EachStructureOnce ==
  (pc = "selected" /\ getStructure1(data) # Null) =>
    LET Sum(f(_)) == SumSeq([i \in DOMAIN DistinctSelected |-> f(DistinctSelected[i].s)]) IN
    /\ meas.total_area_sqft = Sum(LAMBDA s : s.total_area_sqft)
    /\ meas.ridges_ft = Sum(LAMBDA s : s.measurements.ridges_ft)
    /\ meas.hips_ft = Sum(LAMBDA s : s.measurements.hips_ft)
    /\ meas.valleys_ft = Sum(LAMBDA s : s.measurements.valleys_ft)
    /\ meas.rakes_ft = Sum(LAMBDA s : s.measurements.rakes_ft)
    /\ meas.eaves_ft = Sum(LAMBDA s : s.measurements.eaves_ft)
    /\ meas.flashing_ft = Sum(LAMBDA s : s.measurements.flashing_ft)
    /\ meas.step_flashing_ft = Sum(LAMBDA s : s.measurements.step_flashing_ft)
    /\ meas.drip_edge_ft = Sum(LAMBDA s : s.measurements.drip_edge_ft)

\* C26: on a report of two structures or more, getCombinedMeasurements returns
\* the measurement set that getSelectedMeasurements returns with structure 2
\* selected and structure 3 not: area, lengths, suggested squares and pitch
\* breakdown.
C26_MergePathsAgree ==
  (pc = "combined" /\ Len(data.structures) >= 2) =>
    meas = getSelectedMeasurements(data, TRUE, FALSE)

\* C27: when no line has a negative cost and the subtotal is positive, the
\* summary of calculateTotalCosts has totalCost >= subtotal, profit >= 0 and
\* profitMargin = 1 - x for the clamped contribution fraction x, whatever the
\* costs are; when the subtotal is 0, totalCost, profit and profitMargin are 0.
C27_MarginFromFractionOnly ==
  (/\ pc = "done"
   /\ \A i \in DOMAIN pricedMaterials : QLe(QZero, pricedMaterials[i].totalCost)
   /\ \A i \in DOMAIN laborItems : QLe(QZero, laborItems[i].totalCost))
  => IF QLt(QZero, totals.subtotal)
     THEN /\ QLe(totals.subtotal, totals.totalCost)
          /\ QLe(QZero, totals.profit)
          /\ totals.profitMargin = QSub(QInt(1), ClampedContribution)
     ELSE /\ totals.totalCost = QZero
          /\ totals.profit = QZero
          /\ totals.profitMargin = QZero

\* a subtotal of 1000 at a fraction of 1, clamped to 0.51: the margin is 0.49
C27_Witness ==
  /\ pc = "done"
  /\ contributionX = QInt(1)
  /\ totals.subtotal = QInt(1000)
  /\ totals.profitMargin = Q(49, 100)

\* C29: the amount the financing-plan payments are computed from holds the 500
\* origination fee once, for financed and for other estimates alike: it is
\* the margin-inverted contract total plus 500.
C29_FeeOnce ==
  pc = "pdf" => financeTotal = QAdd(totals.totalCost, QInt(500))

\* C28: once every calculateCosts started by a change of the slider has saved
\* the estimate, the stored profit_margin and total_cost are those computed
\* from the slider's latest position, not those of an earlier recalculation
\* whose PUT arrived later.
C28_LatestSaveWins ==
  (/\ puts = {}
   /\ stored # Null
   /\ stored.profit_margin # Undef)
  => /\ stored.profit_margin = contributionPct
     /\ stored.total_cost = updatedEstimate(contributionPct).total_cost

\* C30: no response of the estimates API (list, get one, create, update) to a
\* user whose role is not admin holds a material line with a pricePerUnit or
\* a totalCost other than 0.
C30_PricesForAdminsOnly ==
  (role # "admin" /\ response # Null) =>
    \A i \in DOMAIN response.estimates :
      LET lines == response.estimates[i].material_costs IN
      lines # Null =>
        \A k \in DOMAIN lines :
          lines[k].pricePerUnit = QZero /\ lines[k].totalCost = QZero

====
